---------------------------- MODULE Spec2Model ----------------------------
(***************************************************************************)
(* A model of the TAG population-report scraper: the natural-key upserts   *)
(* of scraper/db_helpers.py over the tables of models.py, and the          *)
(* components that call them.  Each subsystem has its own specification    *)
(* over the shared variables; the variables a specification does not use   *)
(* stay at their idle value.                                               *)
(***************************************************************************)
EXTENDS Integers, Sequences, FiniteSets, TLC

VARIABLES
    now,        \* the wall clock (time.time() / datetime.now()), in ticks
    db,         \* the relational store: table name -> sequence of rows
    \* ---- one session issuing upserts one after the other
    calls,      \* number of upsert calls issued so far
    last,       \* the arguments of the last upsert call, or NoCall
    once,       \* the store as it was when that call returned
    repeated,   \* TRUE when the last call has been issued again since
    \* ---- parallel runners, each inside one upsert call
    rpc,        \* runner -> "idle" | "queried"
    rreq,       \* runner -> the arguments of the call it is in
    rfound,     \* runner -> index of the row its query returned (0: none)
    rtime,      \* runner -> the `now` its call read on entry
    rraised,    \* runner -> TRUE when its last call ended in IntegrityError
    \* ---- concurrent fetches through the rate limiter
    pacer,      \* which engine runs: "async" (AsyncHTTPClient) | "threads"
    last_request_time,  \* AsyncHTTPClient._last_request_time: host -> time
    fpc,        \* fetch -> "idle" | "sleeping" | "delaying" | "started"
    fhost,      \* fetch -> the host it requests
    fwake,      \* fetch -> the time its sleep ends
    fstart,     \* fetch -> the time its request started
    \* ---- one operation under retry_with_backoff
    retry_engine,   \* "pipeline" (pipeline.py) | "unified" (unified_pipeline.py)
    max_retries,    \* the configured max_retries
    attempt,        \* the loop variable of retry_with_backoff
    retry_pc,       \* "idle" | "calling" | "backoff" | "returned" | "raised"
    attempts_made,  \* how many times the operation has been called
    retries,        \* the run statistics' retry counter
    \* ---- the cache in front of the async pipeline's scrape steps
    memory_cache,   \* CacheManager._memory_cache: cache key -> (data, timestamp)
    file_cache,     \* the .cache files: cache key -> (data, timestamp)
    obtained,       \* cache key -> when its value was last fetched (-1: never)
    requests,       \* number of scrape requests made
    last_request,   \* the last request: its scope, how it was served, and
                    \* the age its value had when it was made
    \* ---- a crawl of the site by the multi-level orchestrator
    deviation,      \* how the site differs from the baseline site
    engine,         \* "orchestrator" (scrape_multiple_sports) | "unified"
    concurrency,    \* the configured concurrency
    stage,          \* sport -> "waiting" | "sets" | "cards" | "grades" |
                    \*          "commit" | "done" | "failed"
    pending,        \* sport -> the children of the stage not yet scraped
    collected,      \* sport -> all_sets / all_cards gathered for the next stage
    view,           \* sport -> the store as the sport's session sees it
    session_ok,     \* sport -> FALSE once a flush of the session has failed
    summary,        \* sport -> None | "ok" | "error"
    visited,        \* the pages requested so far
    errors_encountered, \* UnifiedPipeline.stats.errors_encountered
    errors_occurred, \* the exceptions raised and caught so far
    \* ---- a run of AsyncScrapingPipeline.run_pipeline over the site
    async_pc,       \* "idle" | "running" | "finished" | "aborted"
    async_todo,     \* the iterations of the nested loops still to be made
    async_stats,    \* AsyncScrapingPipeline.stats
    \* ---- fetches through AsyncWebScraper.fetch_html_async
    _cache,         \* AsyncHTTPClient._cache: url -> content and timestamp
    _js_required_urls,  \* AsyncWebScraper._js_required_urls
    enable_cache,   \* AsyncHTTPClient.enable_cache
    use_playwright_fallback, \* AsyncWebScraper.use_playwright_fallback
    fetches,        \* number of fetches made so far
    rendered,       \* the urls that were served through the rendering fallback
    last_fetch,     \* the last fetch: its url, time and what it did
    \* ---- the worker pools of a run, child operations as they start and end
    sport_task,     \* sport -> "queued" | "running" | "done"
    level_of,       \* sport -> 0, or the level 1..3 whose pool is open
    queued,         \* sport -> child operations submitted and not started
    running,        \* sport -> child operations in flight
    \* ---- runs of a pipeline entry point, one after the other
    pipeline,       \* the entry point the runs go through
    run_phase,      \* "idle" | "running"
    dry_run,        \* the dry_run flag of the current run
    run_no,         \* number of runs started
    run_todo,       \* the sports the current run has still to scrape
    run_session,    \* the store as the pipeline's own session sees it
    run_stats,      \* the statistics of the current run
    reports,        \* what each finished run reported
    \* ---- the statistics of a run, updated by its concurrent workers
    stat_pc,        \* sport -> where its scrape_sport_complete call stands
    stat_result,    \* sport -> what its scrape returned: the years found, or an error
    stat_lock,      \* UnifiedPipeline.lock: its holder, or None
    stat_tmp,       \* sport -> the counter value its += has loaded
    unified_stats,  \* UnifiedPipeline.stats
    task_pc,        \* card task -> "pending" | "done"
    performed,      \* the increments performed so far, per counter
    contended,      \* a worker reached the lock while another held it
    \* ---- fetches that wait for a server which may never answer
    fetch_route,    \* the function the pages are fetched with
    wait_stage,     \* "idle", or the call the current fetch waits in
    waited,         \* how long it has waited there, in units of 30 seconds
    outcomes,       \* how each finished fetch ended: "html" | "timeout"
    \* ---- the configured filters
    year_filter,    \* the allow-list of years; empty when none is configured
    \* ---- a bulk upsert of records in batches
    bulk_route,     \* the function that splits the records into batches
    bulk_records,   \* the records: key, and whether the table accepts the record
    batch_state,    \* batch -> "pending" | "running" | "committed" | "failed" | "cancelled"
    bulk_table,     \* the keys the table holds
    \* ---- a pipeline started from its command line
    cfg_entry,      \* the entry point that is run
    cfg,            \* the configuration given: concurrency, delay
    cfg_pc,         \* "start" | "discovered" | "constructed" | "scraping" | "exited"
    cfg_effective,  \* the concurrency and delay the scrape works with
    cfg_requests,   \* pages requested from the site so far
    cfg_exit,       \* the exit status, -1 while running
    \* ---- the grade rows of one card page
    grade_page,     \* the rows of the card page's table
    grade_pc,       \* "start" | "storing" | "done"
    grade_found,    \* the extracted grade rows still to be stored
    grade_table,    \* the grade rows stored
    rows_skipped,   \* PipelineStats.rows_skipped
    \* ---- the multi-runner orchestrator and its runner processes
    orch_pc,        \* "start_runner" | "register" | "monitoring" | "terminated"
    orch_next,      \* the runner start_all_runners handles next
    orch_runners,   \* the runner ids in self.runners
    orch_status,    \* runner -> status of its RunnerStatus object
    process,        \* runner -> "none" | "alive" | "exit0" | "exit1"
    monitor_thread  \* runner -> "none" | "waiting" | "done"

storeVars  == <<now, db>>
upsertVars == <<calls, last, once, repeated>>
runnerVars == <<rpc, rreq, rfound, rtime, rraised>>
rateVars   == <<pacer, last_request_time, fpc, fhost, fwake, fstart>>
retryVars  ==
    <<retry_engine, max_retries, attempt, retry_pc, attempts_made, retries>>
cacheVars  == <<memory_cache, file_cache, obtained, requests, last_request>>
crawlVars  ==
    <<deviation, engine, concurrency, stage, pending, collected, view,
      session_ok, summary, visited, errors_encountered, errors_occurred>>
asyncVars  == <<async_pc, async_todo, async_stats>>
fetchVars == <<_cache, _js_required_urls, enable_cache, use_playwright_fallback, fetches, rendered, last_fetch>>
poolVars == <<sport_task, level_of, queued, running>>
runVars == <<pipeline, run_phase, dry_run, run_no, run_todo, run_session, run_stats, reports>>
statVars == <<stat_pc, stat_result, stat_lock, stat_tmp, unified_stats, task_pc, performed, contended>>
timeoutVars == <<fetch_route, wait_stage, waited, outcomes>>
filterVars == <<year_filter>>
bulkVars == <<bulk_route, bulk_records, batch_state, bulk_table>>
configVars == <<cfg_entry, cfg, cfg_pc, cfg_effective, cfg_requests, cfg_exit>>
gradeVars == <<grade_page, grade_pc, grade_found, grade_table, rows_skipped>>
monitorVars == <<orch_pc, orch_next, orch_runners, orch_status, process, monitor_thread>>
vars ==
    <<storeVars, upsertVars, runnerVars, rateVars, retryVars, cacheVars,
      crawlVars, asyncVars,
      fetchVars,
      poolVars,
      runVars,
      statVars,
      timeoutVars,
      filterVars,
      bulkVars,
      configVars,
      gradeVars,
      monitorVars>>

\* The variables a specification leaves alone
outsideUpsert  ==
    <<runnerVars, rateVars, retryVars, cacheVars, crawlVars, asyncVars,
      fetchVars,
      poolVars,
      runVars,
      statVars,
      timeoutVars,
      filterVars,
      bulkVars,
      configVars,
      gradeVars,
      monitorVars>>
outsideRunners == <<rateVars, retryVars, cacheVars, crawlVars, asyncVars,
      fetchVars,
      poolVars,
      runVars,
      statVars,
      timeoutVars,
      filterVars,
      bulkVars,
      configVars,
      gradeVars,
      monitorVars>>
outsideRate    ==
    <<db, upsertVars, runnerVars, retryVars, cacheVars, crawlVars, asyncVars,
      fetchVars,
      poolVars,
      runVars,
      statVars,
      timeoutVars,
      filterVars,
      bulkVars,
      configVars,
      gradeVars,
      monitorVars>>
outsideRetry   ==
    <<db, upsertVars, runnerVars, rateVars, cacheVars, crawlVars, asyncVars,
      fetchVars,
      poolVars,
      runVars,
      statVars,
      timeoutVars,
      filterVars,
      bulkVars,
      configVars,
      gradeVars,
      monitorVars>>
outsideCache   ==
    <<db, upsertVars, runnerVars, rateVars, retryVars, crawlVars, asyncVars,
      fetchVars,
      poolVars,
      runVars,
      statVars,
      timeoutVars,
      filterVars,
      bulkVars,
      configVars,
      gradeVars,
      monitorVars>>
outsideCrawl   ==
    <<upsertVars, runnerVars, rateVars, retryVars, cacheVars, asyncVars,
      fetchVars,
      poolVars,
      runVars,
      statVars,
      timeoutVars,
      filterVars,
      bulkVars,
      configVars,
      gradeVars,
      monitorVars>>
outsideFetch   ==
    <<db, upsertVars, runnerVars, rateVars, retryVars, cacheVars, crawlVars,
      asyncVars,
      poolVars,
      runVars,
      statVars,
      timeoutVars,
      filterVars,
      bulkVars,
      configVars,
      gradeVars,
      monitorVars>>
outsidePool    ==
    <<storeVars, upsertVars, runnerVars, rateVars, retryVars, cacheVars,
      asyncVars, fetchVars,
      runVars,
      statVars,
      timeoutVars,
      filterVars,
      bulkVars,
      configVars,
      gradeVars,
      monitorVars>>
outsideAsync   ==
    <<storeVars, upsertVars, runnerVars, rateVars, retryVars, cacheVars,
      fetchVars,
      poolVars,
      runVars,
      statVars,
      timeoutVars,
      filterVars,
      bulkVars,
      configVars,
      gradeVars,
      monitorVars>>

-----------------------------------------------------------------------------
(* Bounds of the model *)

MaxTime == 2        \* the clock stops ticking here
MaxCalls == 3       \* upsert calls in one behaviour
NumRunners == 2     \* parallel runner processes
NumFetches == 3     \* concurrent fetches
MaxRateTime == 5    \* the clock of the rate limiter stops ticking here
MaxRetries == 3     \* the largest configured max_retries
MaxCacheTime == 2   \* hours the cache's clock runs
MaxRequests == 3    \* scrape requests against the cache
MaxFetches == 3     \* fetches through the web scraper
MaxFetchTime == 2   \* hours the http cache's clock runs
MaxRuns == 2    \* runs of a pipeline entry point

-----------------------------------------------------------------------------
(* Values *)

None == "<None>"    \* Python None / SQL NULL
NoCall == [fn |-> "none"]

Min(S) == CHOOSE x \in S : \A y \in S : x <= y

\* `metrics or {}`: None and the empty dict both become the empty dict
OrEmptyDict(metrics) == IF metrics = None \/ metrics = "{}" THEN "{}" ELSE metrics

TableNames ==
    {"years_index", "sets_per_year", "cards_per_set", "card_grade_rows",
     "totals_rollups"}

EmptyDb == [t \in TableNames |-> <<>>]

\* The columns of each table's UniqueConstraint
UniqueColumns(t) ==
    CASE t = "years_index"     -> <<"sport", "year">>
      [] t = "sets_per_year"   -> <<"sport", "year", "set_title">>
      [] t = "cards_per_set"   -> <<"sport", "year", "set_title", "card_name">>
      [] t = "card_grade_rows" ->
            <<"sport", "year", "set_title", "card_name", "cert_number">>
      [] t = "totals_rollups"  ->
            <<"scope", "sport", "year", "set_title", "card_name">>

\* The natural key of a row of table t
NaturalKey(t, row) == [i \in DOMAIN UniqueColumns(t) |-> row[UniqueColumns(t)[i]]]

\* A UniqueConstraint rejects a new row when a stored row equals it on every
\* constrained column; a NULL in a constrained column equals nothing.
UniqueViolation(t, rows, row) ==
    \E i \in DOMAIN rows :
        \A c \in DOMAIN UniqueColumns(t) :
            /\ row[UniqueColumns(t)[c]] # None
            /\ rows[i][UniqueColumns(t)[c]] = row[UniqueColumns(t)[c]]

-----------------------------------------------------------------------------
(* db_helpers.py: session.query(T).filter_by(key).first() *)

\* Index of the first row with the natural key `key` (filter_by compares a
\* None argument with IS NULL, so a NULL column matches a None argument)
QueryFirst(t, rows, key) ==
    LET hits == {i \in DOMAIN rows : NaturalKey(t, rows[i]) = key}
    IN  IF hits = {} THEN 0 ELSE Min(hits)

\* The row an upsert call builds when its query found nothing
NewRow(c, t) ==
    CASE c.fn = "upsert_years_index" ->
            [sport |-> c.sport, year |-> c.year, year_url |-> c.url,
             discovered_at |-> t]
      [] c.fn = "upsert_sets_per_year" ->
            [sport |-> c.sport, year |-> c.year, set_title |-> c.set_title,
             year_url |-> c.url, set_urls |-> c.urls, metrics |-> c.metrics,
             discovered_at |-> t]
      [] c.fn = "upsert_cards_per_set" ->
            [sport |-> c.sport, year |-> c.year, set_title |-> c.set_title,
             card_name |-> c.card_name, set_url |-> c.url,
             card_urls |-> c.urls, metrics |-> c.metrics,
             discovered_at |-> t]
      [] c.fn = "upsert_card_grade_row" ->
            [sport |-> c.sport, year |-> c.year, set_title |-> c.set_title,
             card_name |-> c.card_name, cert_number |-> c.cert_number,
             card_url |-> c.url, tag_grade |-> c.metrics, discovered_at |-> t]
      [] c.fn = "upsert_totals_rollups" ->
            [scope |-> c.scope, sport |-> c.sport, year |-> c.year,
             set_title |-> c.set_title, card_name |-> c.card_name,
             metrics |-> OrEmptyDict(c.metrics), computed_at |-> t]

\* The stored row `row` after an upsert call whose query found it
UpdatedRow(c, row, t) ==
    CASE c.fn = "upsert_years_index" ->
            IF row.year_url # c.url THEN [row EXCEPT !.year_url = c.url] ELSE row
      [] c.fn = "upsert_sets_per_year" ->
            [row EXCEPT !.year_url = c.url, !.set_urls = c.urls,
                        !.metrics = c.metrics]
      [] c.fn = "upsert_cards_per_set" ->
            [row EXCEPT !.set_url = c.url, !.card_urls = c.urls,
                        !.metrics = c.metrics]
      [] c.fn = "upsert_card_grade_row" ->
            [row EXCEPT !.card_url = c.url, !.tag_grade = c.metrics]
      [] c.fn = "upsert_totals_rollups" ->
            [row EXCEPT !.metrics = OrEmptyDict(c.metrics), !.computed_at = t]

\* The table an upsert function writes
TableOf(c) ==
    CASE c.fn = "upsert_years_index"    -> "years_index"
      [] c.fn = "upsert_sets_per_year"  -> "sets_per_year"
      [] c.fn = "upsert_cards_per_set"  -> "cards_per_set"
      [] c.fn = "upsert_card_grade_row" -> "card_grade_rows"
      [] c.fn = "upsert_totals_rollups" -> "totals_rollups"

\* The filter_by arguments of an upsert call
KeyOf(c) == NaturalKey(TableOf(c), NewRow(c, 0))

\* A query that never finds the stored row
upsert_query_finds_nothing(store, c) == 0

\* The first half of every upsert: the query
upsert_query(store, c) == QueryFirst(TableOf(c), store[TableOf(c)], KeyOf(c))

\* The second half: `if not row: add + flush, else: assign the fields`.
\* The flush raises IntegrityError when the table's UniqueConstraint rejects
\* the row; the store is then as it was.
upsert_raises(store, c, found) ==
    found = 0 /\ UniqueViolation(TableOf(c), store[TableOf(c)], NewRow(c, 0))

upsert_write(store, c, found, t) ==
    IF found = 0
    THEN IF upsert_raises(store, c, found)
         THEN store
         ELSE [store EXCEPT ![TableOf(c)] = Append(@, NewRow(c, t))]
    ELSE [store EXCEPT ![TableOf(c)][found] = UpdatedRow(c, @, t)]

\* A whole upsert call made with nothing running in between
upsert(store, c, t) == upsert_write(store, c, upsert_query(store, c), t)

-----------------------------------------------------------------------------
(* The calls the model issues *)

Urls == {"u1", "u2"}
MetricValues == {None, "m1"}

\* The arguments of one upsert call
UpsertCall(fn, scope, sport, year, set_title, card_name, cert, url, urls, metrics) ==
    [fn |-> fn, scope |-> scope, sport |-> sport, year |-> year,
     set_title |-> set_title, card_name |-> card_name, cert_number |-> cert,
     url |-> url, urls |-> urls, metrics |-> metrics]

CallShape(fn, scope, year, set_title, card_name, cert, url, metrics) ==
    UpsertCall(fn, scope, "Baseball", year, set_title, card_name, cert, url,
               <<url>>, metrics)

YearsIndexCalls ==
    {CallShape("upsert_years_index", None, y, None, None, None, u, None) :
        y \in {"1989", "1990"}, u \in Urls}
SetsPerYearCalls ==
    {CallShape("upsert_sets_per_year", None, "1989", "Topps", None, None, u, "m1") :
        u \in Urls}
CardsPerSetCalls ==
    {CallShape("upsert_cards_per_set", None, "1989", "Topps", "Ryan", None, u, "m1") :
        u \in Urls}
CardGradeRowCalls ==
    {CallShape("upsert_card_grade_row", None, "1989", "Topps", "Ryan",
               "X3032464", u, "8.5") : u \in Urls}
TotalsRollupsCalls ==
    {CallShape("upsert_totals_rollups", "sport", None, None, None, None, None, m) :
        m \in MetricValues}
    \cup
    {CallShape("upsert_totals_rollups", "year", "1989", None, None, None, None, m) :
        m \in MetricValues}
    \cup
    {CallShape("upsert_totals_rollups", "set", "1989", "Topps", None, None, None, "m1"),
     CallShape("upsert_totals_rollups", "card", "1989", "Topps", "Ryan", None, None, "m1")}

UpsertCalls ==
    YearsIndexCalls \cup SetsPerYearCalls \cup CardsPerSetCalls
    \cup CardGradeRowCalls \cup TotalsRollupsCalls

-----------------------------------------------------------------------------
(* Idle values of each group of variables *)

IdleUpsert == calls = 0 /\ last = NoCall /\ once = EmptyDb /\ repeated = FALSE
IdleRunners ==
    /\ rpc = [r \in 1..NumRunners |-> "idle"]
    /\ rreq = [r \in 1..NumRunners |-> NoCall]
    /\ rfound = [r \in 1..NumRunners |-> 0]
    /\ rtime = [r \in 1..NumRunners |-> 0]
    /\ rraised = [r \in 1..NumRunners |-> FALSE]
IdleRate ==
    /\ pacer = "async"
    /\ last_request_time = << >>
    /\ fpc = [f \in 1..NumFetches |-> "idle"]
    /\ fhost = [f \in 1..NumFetches |-> None]
    /\ fwake = [f \in 1..NumFetches |-> 0]
    /\ fstart = [f \in 1..NumFetches |-> 0]
IdleRetry ==
    /\ retry_engine = "pipeline"
    /\ max_retries = 0
    /\ attempt = 0
    /\ retry_pc = "idle"
    /\ attempts_made = 0
    /\ retries = 0

NoRequest == [scope |-> None, served |-> "none", age |-> -1, tier |-> "none"]

IdleCache ==
    /\ memory_cache = << >>
    /\ file_cache = << >>
    /\ obtained = << >>
    /\ requests = 0
    /\ last_request = NoRequest

IdleCrawl ==
    /\ deviation = [path |-> << >>, kind |-> "none"]
    /\ engine = "orchestrator"
    /\ concurrency = 1
    /\ stage = << >>
    /\ pending = << >>
    /\ collected = << >>
    /\ view = << >>
    /\ session_ok = << >>
    /\ summary = << >>
    /\ visited = {}
    /\ errors_encountered = 0
    /\ errors_occurred = 0

NoStats ==
    [categories_processed |-> 0, years_processed |-> 0, sets_processed |-> 0,
     cards_processed |-> 0, errors |-> 0]

IdleAsync == async_pc = "idle" /\ async_todo = << >> /\ async_stats = NoStats

NoFetch ==
    [url |-> None, time |-> -1, expired |-> FALSE, lightweight |-> FALSE,
     requested |-> FALSE, rendered_before |-> FALSE, result |-> "none"]

IdleFetch ==
    /\ _cache = << >>
    /\ _js_required_urls = {}
    /\ enable_cache = TRUE
    /\ use_playwright_fallback = TRUE
    /\ fetches = 0
    /\ rendered = {}
    /\ last_fetch = NoFetch

IdlePool ==
    /\ sport_task = << >>
    /\ level_of = << >>
    /\ queued = << >>
    /\ running = << >>

NoRunStats ==
    [rows_inserted |-> 0, rows_updated |-> 0, totals_captured |-> 0,
     pages_scraped |-> 0, persistence_calls |-> 0,
     total_years |-> 0, total_sets |-> 0, total_cards |-> 0,
     total_grade_rows |-> 0, counted |-> TRUE, store_at_start |-> << >>]

IdleRuns ==
    /\ pipeline = "none"
    /\ run_phase = "idle"
    /\ dry_run = FALSE
    /\ run_no = 0
    /\ run_todo = << >>
    /\ run_session = << >>
    /\ run_stats = NoRunStats
    /\ reports = << >>

NoUnifiedStats == [years_discovered |-> 0, errors_encountered |-> 0]

NothingPerformed ==
    [years_discovered |-> 0, errors_encountered |-> 0, cards_processed |-> 0,
     errors |-> 0]

IdleStats ==
    /\ stat_pc = << >>
    /\ stat_result = << >>
    /\ stat_lock = None
    /\ stat_tmp = << >>
    /\ unified_stats = NoUnifiedStats
    /\ task_pc = << >>
    /\ performed = NothingPerformed
    /\ contended = FALSE

IdleTimeout ==
    /\ fetch_route = "none"
    /\ wait_stage = "idle"
    /\ waited = 0
    /\ outcomes = << >>

\* The allow-lists of years a run can be configured with
YearFilters == {{}, {"1989"}}

IdleFilter == year_filter = {}

IdleBulk ==
    /\ bulk_route = "none"
    /\ bulk_records = << >>
    /\ batch_state = << >>
    /\ bulk_table = {}

IdleConfig ==
    /\ cfg_entry = "none"
    /\ cfg = [concurrency |-> 1, delay |-> 0]
    /\ cfg_pc = "exited"
    /\ cfg_effective = [concurrency |-> 1, delay |-> 0]
    /\ cfg_requests = 0
    /\ cfg_exit = 0

IdleGrades ==
    /\ grade_page = << >>
    /\ grade_pc = "done"
    /\ grade_found = << >>
    /\ grade_table = {}
    /\ rows_skipped = 0

IdleMonitor ==
    /\ orch_pc = "terminated"
    /\ orch_next = 1
    /\ orch_runners = {}
    /\ orch_status = << >>
    /\ process = << >>
    /\ monitor_thread = << >>

IdleOutsideStore ==
    IdleRate /\ IdleRetry /\ IdleCache /\ IdleCrawl /\ IdleAsync
    /\ IdleFetch
    /\ IdlePool
    /\ IdleRuns
    /\ IdleStats
    /\ IdleTimeout
    /\ IdleFilter
    /\ IdleBulk
    /\ IdleConfig
    /\ IdleGrades
    /\ IdleMonitor

-----------------------------------------------------------------------------
(* SpecUpsert: one session calling the upserts one after the other *)

InitUpsert ==
    now = 0 /\ db = EmptyDb /\ IdleUpsert /\ IdleRunners /\ IdleOutsideStore

Tick ==
    /\ now < MaxTime
    /\ now' = now + 1
    /\ UNCHANGED <<db, upsertVars, outsideUpsert>>

\* An upsert call with fresh arguments
Call ==
    /\ calls < MaxCalls
    /\ \E c \in UpsertCalls :
        /\ db' = upsert(db, c, now)
        /\ last' = c
    /\ once' = db'
    /\ repeated' = FALSE
    /\ calls' = calls + 1
    /\ UNCHANGED <<now, outsideUpsert>>

\* The last call again, with the same arguments
Repeat ==
    /\ calls < MaxCalls
    /\ last # NoCall
    /\ db' = upsert(db, last, now)
    /\ repeated' = TRUE
    /\ calls' = calls + 1
    /\ UNCHANGED <<now, last, once, outsideUpsert>>

NextUpsert == Tick \/ Call \/ Repeat

SpecUpsert == InitUpsert /\ [][NextUpsert]_vars

\* The one row of the last call's key, all else as it was: calling an upsert
\* again with the same arguments changes nothing but a rollup's computed_at
WithoutComputedAt(store) ==
    [store EXCEPT !["totals_rollups"] =
        [i \in DOMAIN @ |-> [@[i] EXCEPT !.computed_at = 0]]]

RowsOfKey(store, t, key) ==
    {i \in DOMAIN store[t] : NaturalKey(t, store[t][i]) = key}

\* C2 (as stated): an upsert called twice in succession with the same input
\* leaves the store exactly as one call left it: one row for the key, every
\* field value the same.
C2_SameStateAsOnce ==
    repeated =>
        /\ Cardinality(RowsOfKey(db, TableOf(last), KeyOf(last))) = 1
        /\ db = once

\* C2 (amended): an upsert called twice in succession with the same input
\* leaves one row for the key and every field value the same, except that a
\* totals rollup's computed_at is set again to the time of the second call.
C2_SameStateButComputedAt ==
    repeated =>
        /\ Cardinality(RowsOfKey(db, TableOf(last), KeyOf(last))) = 1
        /\ WithoutComputedAt(db) = WithoutComputedAt(once)
        /\ \A i \in DOMAIN db["totals_rollups"] :
              db["totals_rollups"][i].computed_at
                  >= once["totals_rollups"][i].computed_at
        /\ \A t \in TableNames \ {"totals_rollups"} : db[t] = once[t]

\* A rollup upsert was repeated after the clock moved on
C2_Witness ==
    /\ repeated
    /\ last.fn = "upsert_totals_rollups"
    /\ db # once

-----------------------------------------------------------------------------
(* SpecRunners: parallel runner processes against the one database.        *)
(* multi_runner_orchestrator.start_runner launches every runner on the     *)
(* same unified_pipeline.py with the same arguments, so every runner       *)
(* issues the same upsert calls.  A runner's query and its flush are two   *)
(* steps; another runner may take steps in between.                        *)

RunnerCalls == {c \in UpsertCalls : c.url \in {None, "u1"} /\ c.metrics # None}

InitRunners ==
    now = 0 /\ db = EmptyDb /\ IdleUpsert /\ IdleRunners /\ IdleOutsideStore

TickRunners ==
    /\ now < MaxTime
    /\ now' = now + 1
    /\ UNCHANGED <<db, upsertVars, runnerVars, outsideRunners>>

\* Runner r enters an upsert: reads the clock and runs the query
RunnerQuery(r) ==
    /\ rpc[r] = "idle"
    /\ calls < MaxCalls
    /\ \E c \in RunnerCalls :
        /\ rreq' = [rreq EXCEPT ![r] = c]
        /\ rfound' = [rfound EXCEPT ![r] = upsert_query(db, c)]
    /\ rtime' = [rtime EXCEPT ![r] = now]
    /\ rpc' = [rpc EXCEPT ![r] = "queried"]
    /\ rraised' = [rraised EXCEPT ![r] = FALSE]
    /\ calls' = calls + 1
    /\ UNCHANGED <<now, db, last, once, repeated, outsideRunners>>

\* Runner r finishes the upsert: insert and flush, or assign the fields
RunnerWrite(r) ==
    /\ rpc[r] = "queried"
    /\ db' = upsert_write(db, rreq[r], rfound[r], rtime[r])
    /\ rraised' = [rraised EXCEPT ![r] = upsert_raises(db, rreq[r], rfound[r])]
    /\ rpc' = [rpc EXCEPT ![r] = "idle"]
    /\ UNCHANGED <<now, calls, last, once, repeated, rreq, rfound, rtime,
                   outsideRunners>>

NextRunners ==
    \/ TickRunners
    \/ \E r \in 1..NumRunners : RunnerQuery(r)
    \/ \E r \in 1..NumRunners : RunnerWrite(r)

SpecRunners == InitRunners /\ [][NextRunners]_vars

\* No table holds two rows with one natural key
NoDuplicateKey ==
    \A t \in TableNames : \A i, j \in DOMAIN db[t] :
        NaturalKey(t, db[t][i]) = NaturalKey(t, db[t][j]) => i = j

\* C1: upserts of one natural key issued by parallel runners are atomic per
\* key: no table ever holds two rows for the key, and an upsert that meets a
\* key already written updates that row in place (it does not fail).
C1_KeyAtomic ==
    /\ NoDuplicateKey
    /\ \A r \in 1..NumRunners : ~rraised[r]

-----------------------------------------------------------------------------
(* SpecRate: concurrent fetches through the two request pacers.            *)
(* AsyncHTTPClient._rate_limit_request reads the host's last request time, *)
(* sleeps for what is missing of rate_limit, and writes the time after the *)
(* sleep; other tasks run while it sleeps.  The thread pool of the         *)
(* multi-level orchestrator runs scrape_year_sets_with_delay in every      *)
(* worker: each sleeps delay_between_requests and then fetches.            *)

Hosts == {"my.taggrading.com", "other.host"}

\* rate_limit and delay_between_requests: one second, in clock ticks
rate_limit == 2
delay_between_requests == 2

\* dict.get(host, 0)
LastRequestTime(host) ==
    IF host \in DOMAIN last_request_time THEN last_request_time[host] ELSE 0

\* dict[host] = t
SetLastRequestTime(host, t) ==
    [h \in DOMAIN last_request_time \cup {host} |->
        IF h = host THEN t ELSE last_request_time[h]]

\* time.time() is far past zero when the client is built
InitRate ==
    /\ now = rate_limit
    /\ pacer \in {"async", "threads"}
    /\ last_request_time = << >>
    /\ fpc = [f \in 1..NumFetches |-> "idle"]
    /\ fhost = [f \in 1..NumFetches |-> None]
    /\ fwake = [f \in 1..NumFetches |-> 0]
    /\ fstart = [f \in 1..NumFetches |-> 0]
    /\ db = EmptyDb /\ IdleUpsert /\ IdleRunners /\ IdleRetry /\ IdleCache
    /\ IdleCrawl /\ IdleAsync
    /\ IdleFetch
    /\ IdlePool
    /\ IdleRuns
    /\ IdleStats
    /\ IdleTimeout
    /\ IdleFilter
    /\ IdleBulk
    /\ IdleConfig
    /\ IdleGrades
    /\ IdleMonitor

TickRate ==
    /\ now < MaxRateTime
    /\ now' = now + 1
    /\ UNCHANGED <<rateVars, outsideRate>>

\* _rate_limit_request up to its await: too early -> go to sleep;
\* otherwise record the time and let the request start
RateLimitEnter(f) ==
    /\ pacer = "async"
    /\ fpc[f] = "idle"
    /\ \E h \in Hosts :
        /\ fhost' = [fhost EXCEPT ![f] = h]
        /\ IF now - LastRequestTime(h) < rate_limit
           THEN /\ fpc' = [fpc EXCEPT ![f] = "sleeping"]
                /\ fwake' = [fwake EXCEPT ![f] =
                                now + (rate_limit - (now - LastRequestTime(h)))]
                /\ UNCHANGED <<last_request_time, fstart>>
           ELSE /\ fpc' = [fpc EXCEPT ![f] = "started"]
                /\ last_request_time' = SetLastRequestTime(h, now)
                /\ fstart' = [fstart EXCEPT ![f] = now]
                /\ UNCHANGED fwake
    /\ UNCHANGED <<now, pacer, outsideRate>>

\* the sleep is over: record the time and let the request start
RateLimitWake(f) ==
    /\ fpc[f] = "sleeping"
    /\ now >= fwake[f]
    /\ fpc' = [fpc EXCEPT ![f] = "started"]
    /\ last_request_time' = SetLastRequestTime(fhost[f], now)
    /\ fstart' = [fstart EXCEPT ![f] = now]
    /\ UNCHANGED <<now, pacer, fhost, fwake, outsideRate>>

\* scrape_year_sets_with_delay in a pool worker: sleep the delay ...
DelayEnter(f) ==
    /\ pacer = "threads"
    /\ fpc[f] = "idle"
    /\ fpc' = [fpc EXCEPT ![f] = "delaying"]
    /\ fhost' = [fhost EXCEPT ![f] = "my.taggrading.com"]
    /\ fwake' = [fwake EXCEPT ![f] = now + delay_between_requests]
    /\ UNCHANGED <<now, pacer, last_request_time, fstart, outsideRate>>

\* ... and then fetch the year page
DelayWake(f) ==
    /\ fpc[f] = "delaying"
    /\ now >= fwake[f]
    /\ fpc' = [fpc EXCEPT ![f] = "started"]
    /\ fstart' = [fstart EXCEPT ![f] = now]
    /\ UNCHANGED <<now, pacer, last_request_time, fhost, fwake, outsideRate>>

NextRate ==
    \/ TickRate
    \/ \E f \in 1..NumFetches : RateLimitEnter(f)
    \/ \E f \in 1..NumFetches : RateLimitWake(f)
    \/ \E f \in 1..NumFetches : DelayEnter(f)
    \/ \E f \in 1..NumFetches : DelayWake(f)

SpecRate == InitRate /\ [][NextRate]_vars

\* C3: of the concurrent fetches to one host, any two requests start at
\* least the configured minimum interval apart.
C3_MinimumGap ==
    \A f, g \in 1..NumFetches :
        (f # g /\ fpc[f] = "started" /\ fpc[g] = "started" /\ fhost[f] = fhost[g])
            => \/ fstart[f] - fstart[g] >= rate_limit
               \/ fstart[g] - fstart[f] >= rate_limit

-----------------------------------------------------------------------------
(* SpecRetry: one fallible operation under retry_with_backoff, in the      *)
(* module-level function of pipeline.py (called by scrape_category_years)  *)
(* and in the method of unified_pipeline.py (called by                     *)
(* discover_and_scrape_categories).                                        *)

RETRY_BACKOFF_BASE == 2
RETRY_JITTER_MAX == 1

RECURSIVE Pow(_, _)
Pow(b, n) == IF n = 0 THEN 1 ELSE b * Pow(b, n - 1)

InitRetry ==
    /\ now = 0
    /\ retry_engine \in {"pipeline", "unified"}
    /\ max_retries \in 0..MaxRetries
    /\ attempt = 0
    /\ retry_pc = "calling"
    /\ attempts_made = 0
    /\ retries = 0
    /\ db = EmptyDb /\ IdleUpsert /\ IdleRunners /\ IdleRate /\ IdleCache
    /\ IdleCrawl /\ IdleAsync
    /\ IdleFetch
    /\ IdlePool
    /\ IdleRuns
    /\ IdleStats
    /\ IdleTimeout
    /\ IdleFilter
    /\ IdleBulk
    /\ IdleConfig
    /\ IdleGrades
    /\ IdleMonitor

\* try: return func() -- the operation succeeds
RetryAttemptReturns ==
    /\ retry_pc = "calling"
    /\ attempts_made' = attempts_made + 1
    /\ retry_pc' = "returned"
    /\ UNCHANGED <<now, retry_engine, max_retries, attempt, retries, outsideRetry>>

\* except: the operation fails; the last attempt re-raises, an earlier one
\* goes on to the backoff
RetryAttemptFails ==
    /\ retry_pc = "calling"
    /\ attempts_made' = attempts_made + 1
    /\ retry_pc' = IF attempt = max_retries THEN "raised" ELSE "backoff"
    /\ UNCHANGED <<now, retry_engine, max_retries, attempt, retries, outsideRetry>>

\* time.sleep(backoff ** attempt + jitter); the method of unified_pipeline
\* then counts the retry, the function of pipeline.py counts nothing
RetryBackoff ==
    /\ retry_pc = "backoff"
    /\ \E jitter \in 0..RETRY_JITTER_MAX :
        now' = now + Pow(RETRY_BACKOFF_BASE, attempt) + jitter
    /\ retries' = IF retry_engine = "unified" THEN retries + 1 ELSE retries
    /\ attempt' = attempt + 1
    /\ retry_pc' = "calling"
    /\ UNCHANGED <<retry_engine, max_retries, attempts_made, outsideRetry>>

NextRetry == RetryAttemptReturns \/ RetryAttemptFails \/ RetryBackoff

SpecRetry == InitRetry /\ [][NextRetry]_vars

\* The attempts the loop `for attempt in range(max_retries + 1)` allows
maxAttempts == max_retries + 1

\* C8: an operation that fails on every attempt is attempted exactly
\* maxAttempts times and then raises, and the run statistics then record
\* maxAttempts - 1 retries.
C8_RetryExhaustion ==
    retry_pc = "raised" =>
        /\ attempts_made = maxAttempts
        /\ retries = maxAttempts - 1

-----------------------------------------------------------------------------
(* SpecCache: the scrape steps of the async pipeline in front of the       *)
(* ScrapingCacheManager.  Time is in hours.                                *)

default_ttl == 1

Scopes == {"categories", "years", "sets", "cards", "card_details"}

\* ScrapingCacheManager.ttl_settings, in hours
ttl_settings(scope) ==
    CASE scope = "categories"   -> 24
      [] scope = "years"        -> 12
      [] scope = "sets"         -> 6
      [] scope = "cards"        -> 2
      [] scope = "card_details" -> 1

\* The key each scrape step asks the cache for
ScrapeKey(scope) ==
    CASE scope = "categories"   -> "categories_all"
      [] scope = "years"        -> "years_Baseball"
      [] scope = "sets"         -> "sets_Baseball_1989"
      [] scope = "cards"        -> "cards_Baseball_1989_Topps"
      [] scope = "card_details" -> "card_details_md5"

_get_cache_key(key, category) == category \o ":" \o key

_is_cache_valid(timestamp, ttl) == now - timestamp < ttl

\* `ttl or self.default_ttl`
TtlOrDefault(ttl) == IF ttl = None \/ ttl = 0 THEN default_ttl ELSE ttl

Put(cache, k, entry) ==
    [x \in DOMAIN cache \cup {k} |-> IF x = k THEN entry ELSE cache[x]]
Drop(cache, k) == [x \in DOMAIN cache \ {k} |-> cache[x]]

\* A get that returns what it finds in a file and leaves the in-memory tier
\* without it
CacheGet_no_promotion(key, category, ttl) ==
    LET k == _get_cache_key(key, category)
        t == TtlOrDefault(ttl)
        memHit == k \in DOMAIN memory_cache
                    /\ _is_cache_valid(memory_cache[k].timestamp, t)
        mem1 == IF k \in DOMAIN memory_cache /\ ~memHit
                THEN Drop(memory_cache, k) ELSE memory_cache
        fileHit == k \in DOMAIN file_cache
                    /\ _is_cache_valid(file_cache[k].timestamp, t)
    IN  IF memHit
        THEN [data |-> memory_cache[k].data, memory |-> memory_cache,
              file |-> file_cache, tier |-> "memory"]
        ELSE IF fileHit
        THEN [data |-> file_cache[k].data, memory |-> mem1, file |-> file_cache,
              tier |-> "file"]
        ELSE [data |-> None, memory |-> mem1,
              file |-> IF k \in DOMAIN file_cache
                       THEN Drop(file_cache, k) ELSE file_cache,
              tier |-> "none"]

\* CacheManager.get: the data returned (None on a miss), the tier it was
\* found in, and the two tiers as the call leaves them
CacheGet(key, category, ttl) ==
    LET k == _get_cache_key(key, category)
        t == TtlOrDefault(ttl)
        memHit == k \in DOMAIN memory_cache
                    /\ _is_cache_valid(memory_cache[k].timestamp, t)
        mem1 == IF k \in DOMAIN memory_cache /\ ~memHit
                THEN Drop(memory_cache, k) ELSE memory_cache
        fileHit == k \in DOMAIN file_cache
                    /\ _is_cache_valid(file_cache[k].timestamp, t)
    IN  IF memHit
        THEN [data |-> memory_cache[k].data, memory |-> memory_cache,
              file |-> file_cache, tier |-> "memory"]
        ELSE IF fileHit
        THEN [data |-> file_cache[k].data,
              memory |-> Put(mem1, k, file_cache[k]), file |-> file_cache,
              tier |-> "file"]
        ELSE [data |-> None, memory |-> mem1,
              file |-> IF k \in DOMAIN file_cache
                       THEN Drop(file_cache, k) ELSE file_cache,
              tier |-> "none"]

\* CacheManager.set: the ttl argument is accepted and not used
CacheSet(memory, file, key, data, category, ttl) ==
    LET k == _get_cache_key(key, category)
        entry == [data |-> data, timestamp |-> now]
    IN  [memory |-> Put(memory, k, entry), file |-> Put(file, k, entry)]

\* ScrapingCacheManager.get_years and its siblings: no ttl is passed
ScrapingCacheGet(scope) == CacheGet(ScrapeKey(scope), scope, None)

\* ScrapingCacheManager.set_years and its siblings
ScrapingCacheSet(memory, file, scope, data) ==
    CacheSet(memory, file, ScrapeKey(scope), data, scope, ttl_settings(scope))

ObtainedAt(k) == IF k \in DOMAIN obtained THEN obtained[k] ELSE -1

InitCache ==
    /\ now = 0
    /\ memory_cache = << >>
    /\ file_cache = << >>
    /\ obtained = << >>
    /\ requests = 0
    /\ last_request = NoRequest
    /\ db = EmptyDb /\ IdleUpsert /\ IdleRunners /\ IdleRate /\ IdleRetry
    /\ IdleCrawl /\ IdleAsync
    /\ IdleFetch
    /\ IdlePool
    /\ IdleRuns
    /\ IdleStats
    /\ IdleTimeout
    /\ IdleFilter
    /\ IdleBulk
    /\ IdleConfig
    /\ IdleGrades
    /\ IdleMonitor

TickCache ==
    /\ now < MaxCacheTime
    /\ now' = now + 1
    /\ UNCHANGED <<cacheVars, outsideCache>>

\* scrape_categories / scrape_years / scrape_sets / scrape_cards /
\* scrape_card_details: ask the cache; on a miss fetch the page and cache a
\* non-empty result
Scrape(scope) ==
    LET k == _get_cache_key(ScrapeKey(scope), scope)
        got == ScrapingCacheGet(scope)
        age == IF ObtainedAt(k) < 0 THEN -1 ELSE now - ObtainedAt(k)
    IN  /\ requests < MaxRequests
        /\ requests' = requests + 1
        /\ IF got.data # None
           THEN /\ memory_cache' = got.memory
                /\ file_cache' = got.file
                /\ last_request' = [scope |-> scope, served |-> "cache", age |-> age,
                                   tier |-> got.tier]
                /\ UNCHANGED obtained
           ELSE \E fetched \in {"[]", "page"} :
                /\ last_request' = [scope |-> scope, served |-> "fetch", age |-> age,
                                   tier |-> "none"]
                /\ IF fetched # "[]"
                   THEN /\ memory_cache' =
                            ScrapingCacheSet(got.memory, got.file, scope, fetched).memory
                        /\ file_cache' =
                            ScrapingCacheSet(got.memory, got.file, scope, fetched).file
                        /\ obtained' = Put(obtained, k, now)
                   ELSE /\ memory_cache' = got.memory
                        /\ file_cache' = got.file
                        /\ UNCHANGED obtained
        /\ UNCHANGED <<now, outsideCache>>

\* A new process: the in-memory tier starts empty, the files remain
ProcessRestart ==
    /\ memory_cache # << >>
    /\ memory_cache' = << >>
    /\ UNCHANGED <<now, file_cache, obtained, requests, last_request, outsideCache>>

NextCache ==
    \/ TickCache
    \/ \E scope \in Scopes : Scrape(scope)
    \/ ProcessRestart

SpecCache == InitCache /\ [][NextCache]_vars

\* C10: once a value has been obtained for a scope and key, a request for it
\* made within that scope's TTL is served from the cache and triggers no
\* new fetch.
C10_ServedWithinTtl ==
    (last_request.served = "fetch" /\ last_request.age >= 0)
        => last_request.age >= ttl_settings(last_request.scope)

\* The tier holds an entry for k that the get of a scrape step, which
\* passes no ttl, finds unexpired
HoldsValid(cache, k) ==
    k \in DOMAIN cache /\ _is_cache_valid(cache[k].timestamp, TtlOrDefault(None))

\* C27: a get looks in the in-memory tier first and answers from it; when
\* the in-memory tier has no unexpired entry and the file tier has one,
\* the get answers with the file's entry and puts it in the in-memory tier
C27_MemoryThenFile ==
    [][(requests' = requests + 1) =>
        LET scope == last_request'.scope
            k == _get_cache_key(ScrapeKey(scope), scope)
        IN  /\ HoldsValid(memory_cache, k) =>
                  /\ last_request'.served = "cache"
                  /\ last_request'.tier = "memory"
                  /\ memory_cache' = memory_cache
                  /\ file_cache' = file_cache
            /\ (~HoldsValid(memory_cache, k) /\ HoldsValid(file_cache, k)) =>
                  /\ last_request'.served = "cache"
                  /\ last_request'.tier = "file"
                  /\ k \in DOMAIN memory_cache'
                  /\ memory_cache'[k] = file_cache[k]
                  /\ file_cache' = file_cache]_vars

\* The last request found no entry in the in-memory tier, was answered
\* from a file, and the file's entry is now in the in-memory tier
C27_Witness ==
    /\ last_request.served = "cache"
    /\ last_request.tier = "file"
    /\ LET k == _get_cache_key(ScrapeKey(last_request.scope), last_request.scope)
       IN  /\ k \in DOMAIN memory_cache
           /\ memory_cache[k] = file_cache[k]

\* CacheManager._memory_cache is a dict that set and get only ever add to,
\* replace in, or drop expired entries from: the code names no capacity.
\* A capacity below the number of distinct keys a run writes
MemoryCapacity == 2

\* C28: the in-memory tier is bounded: it never holds more entries than a
\* fixed capacity, however many distinct keys are written
C28_MemoryTierBounded == Cardinality(DOMAIN memory_cache) <= MemoryCapacity

-----------------------------------------------------------------------------
(* Cell text.  A cell's raw text is a sequence of characters; a title that *)
(* is stored or compared with a column value is the string of its          *)
(* characters.                                                             *)

Whitespace == {" ", "\t", "\n"}
Digits == {"0", "1", "2", "3", "4", "5", "6", "7", "8", "9"}
LowerCase ==
    <<"a", "b", "c", "d", "e", "f", "g", "h", "i", "j", "k", "l", "m",
      "n", "o", "p", "q", "r", "s", "t", "u", "v", "w", "x", "y", "z">>
UpperCase ==
    <<"A", "B", "C", "D", "E", "F", "G", "H", "I", "J", "K", "L", "M",
      "N", "O", "P", "Q", "R", "S", "T", "U", "V", "W", "X", "Y", "Z">>

Max(S) == CHOOSE x \in S : \A y \in S : x >= y

\* str.upper()
upper(text) ==
    [i \in DOMAIN text |->
        IF \E k \in DOMAIN LowerCase : LowerCase[k] = text[i]
        THEN UpperCase[CHOOSE k \in DOMAIN LowerCase : LowerCase[k] = text[i]]
        ELSE text[i]]

\* str.strip()
strip(text) ==
    LET solid == {i \in DOMAIN text : text[i] \notin Whitespace}
    IN  IF solid = {} THEN << >> ELSE SubSeq(text, Min(solid), Max(solid))

\* re.sub(r'\s+', ' ', text)
RECURSIVE collapse_whitespace(_)
collapse_whitespace(text) ==
    IF text = << >> THEN << >>
    ELSE IF Head(text) \in Whitespace
    THEN IF Len(text) > 1 /\ text[2] \in Whitespace
         THEN collapse_whitespace(Tail(text))
         ELSE <<" ">> \o collapse_whitespace(Tail(text))
    ELSE <<Head(text)>> \o collapse_whitespace(Tail(text))

\* normalize_text of the three level extractors
normalize_text(text) ==
    IF text = << >> THEN << >> ELSE collapse_whitespace(strip(text))

\* The string of a text
RECURSIVE Str(_)
Str(text) == IF text = << >> THEN "" ELSE Head(text) \o Str(Tail(text))

TOTALS == <<"T", "O", "T", "A", "L", "S">>

\* A title that is not the literal TOTALS
is_totals_row_case_sensitive(title_text) == title_text = TOTALS

\* `title_text.upper() == "TOTALS"`
is_totals_row(title_text) == upper(title_text) = TOTALS

\* re.match(r"^\d{4}$", title_text)
is_year(title_text) ==
    Len(title_text) = 4 /\ \A i \in DOMAIN title_text : title_text[i] \in Digits

-----------------------------------------------------------------------------
(* The site: the pages of the population report.  A page is named by the  *)
(* parts of its url after /pop-report: <<sport>>, <<sport, year>>,         *)
(* <<sport, year, set>> and, for a card, <<sport, year, set, card, number>>.*)
(* The site is the baseline below with at most one deviation.              *)

SportUrls == <<"Baseball", "Hockey">>

Year1989 == <<"1", "9", "8", "9">>
Year1990 == <<"1", "9", "9", "0">>
Topps == <<"T", "o", "p", "p", "s">>
Ryan == <<"R", "y", "a", "n">>
Cert == <<"X", "3", "0">>
Count == <<"4", "2">>
CardNo == <<"7">>

\* The titles of the child rows of a page
BaselineTitles(path) ==
    IF path = <<"Baseball">> THEN <<Year1989, Year1990>>
    ELSE IF path = <<"Hockey">> THEN <<Year1989>>
    ELSE IF Len(path) = 2 THEN <<Topps>>
    ELSE IF Len(path) = 3 THEN <<Ryan>>
    ELSE <<Cert>>

\* The page a linked row of the page at `path` leads to
Href(path, number, title) ==
    IF Len(path) = 3
    THEN path \o <<Str(normalize_text(title)), Str(normalize_text(number))>>
    ELSE Append(path, Str(normalize_text(title)))

RECURSIVE PathsBelow(_)
PathsBelow(path) ==
    {path} \cup
    IF Len(path) = 5 THEN {}
    ELSE UNION {PathsBelow(Href(path, CardNo, BaselineTitles(path)[i])) :
                    i \in DOMAIN BaselineTitles(path)}

AllPaths == UNION {PathsBelow(<<SportUrls[i]>>) : i \in DOMAIN SportUrls}

NoDeviation == [path |-> << >>, kind |-> "none"]

DeviationKinds(path) ==
    {"fetch_fails", "flush_fails", "no_rows"}
    \cup (IF Len(path) < 4
          THEN {"only_totals", "no_totals", "totals_lowercase",
                "totals_padded", "child_unlinked"}
          ELSE {})
    \cup (IF Len(path) = 3 THEN {"totals_unnumbered"} ELSE {})

Deviations ==
    {NoDeviation} \cup
    UNION {{[path |-> p, kind |-> k] : k \in DeviationKinds(p)} : p \in AllPaths}

Row(number, title, href, rest) ==
    [number |-> number, title |-> title, href |-> href, rest |-> rest]

\* The rows of the page at `path` under deviation d
PageRows(path, d) ==
    LET here == d.path = path
        kind == IF here THEN d.kind ELSE "none"
        titles == BaselineTitles(path)
        children ==
            [i \in DOMAIN titles |->
                Row(CardNo, titles[i],
                    ~(kind = "child_unlinked" /\ i = 1), Count)]
        totals ==
            CASE kind = "totals_lowercase" ->
                    <<Row(CardNo, <<"t", "o", "t", "a", "l", "s">>, TRUE, Count)>>
              [] kind = "totals_padded" ->
                    <<Row(CardNo, <<" ", "T", "o", "t", "a", "l", "s", "\n">>,
                          TRUE, Count)>>
              [] kind = "totals_unnumbered" ->
                    <<Row(<< >>, TOTALS, FALSE, Count)>>
              [] kind = "no_totals" -> << >>
              [] OTHER -> <<Row(CardNo, TOTALS, FALSE, Count)>>
    IN  IF kind = "no_rows" THEN << >>
        ELSE IF Len(path) = 5 THEN children
        ELSE IF kind = "only_totals" THEN totals
        ELSE children \o totals

\* fetch_rendered_html raises for this page
FetchFails(path, d) ==
    path \notin AllPaths \/ (d.path = path /\ d.kind = "fetch_fails")

\* the database rejects the first flush made while this page is handled
FlushFails(path, d) == d.path = path /\ d.kind = "flush_fails"

\* urljoin(BASE_URL, href) of a row of the page at `path`
RowUrl(path, row) == Href(path, row.number, row.title)

RECURSIVE UrlString(_)
UrlString(path) ==
    IF path = << >> THEN "" ELSE "/" \o Head(path) \o UrlString(Tail(path))

\* extract_metrics_from_row
extract_metrics_from_row(row) ==
    IF normalize_text(row.rest) = << >> THEN "{}" ELSE Str(normalize_text(row.rest))


-----------------------------------------------------------------------------
(* The level extractors, over the rows of a fetched page *)

\* sport_years_scraper.extract_years_index
extract_years_index(rows, sport) ==
    LET year_rows ==
            SelectSeq(rows, LAMBDA r :
                /\ ~is_totals_row(normalize_text(r.title))
                /\ is_year(normalize_text(r.title))
                /\ r.href)
        totals_rows ==
            SelectSeq(rows, LAMBDA r : is_totals_row(normalize_text(r.title)))
    IN  [years |->
            [i \in DOMAIN year_rows |->
                [sport |-> sport,
                 year |-> Str(normalize_text(year_rows[i].title)),
                 year_url |-> RowUrl(<<sport>>, year_rows[i])]],
         totals |->
            [i \in DOMAIN totals_rows |->
                [scope |-> "sport", sport |-> sport, year |-> None,
                 set_title |-> None, card_name |-> None,
                 metrics |-> extract_metrics_from_row(totals_rows[i])]]]

\* enhanced_sets_scraper.extract_sets_from_year_page
extract_sets_from_year_page(rows, sport, year, year_url) ==
    LET titled == SelectSeq(rows, LAMBDA r : normalize_text(r.title) # << >>)
        set_rows ==
            SelectSeq(titled, LAMBDA r : ~is_totals_row(normalize_text(r.title)))
        totals_rows ==
            SelectSeq(titled, LAMBDA r : is_totals_row(normalize_text(r.title)))
    IN  [sets |->
            [i \in DOMAIN set_rows |->
                LET url == RowUrl(year_url, set_rows[i])
                IN  [sport |-> sport, year |-> year, year_url |-> year_url,
                     set_title |-> Str(normalize_text(set_rows[i].title)),
                     set_urls |-> IF set_rows[i].href THEN <<url>> ELSE << >>,
                     set_page_url |-> IF set_rows[i].href THEN url ELSE << >>,
                     metrics |-> extract_metrics_from_row(set_rows[i])]],
         totals |->
            [i \in DOMAIN totals_rows |->
                [scope |-> "year", sport |-> sport, year |-> year,
                 set_title |-> None, card_name |-> None,
                 metrics |-> extract_metrics_from_row(totals_rows[i])]]]

\* cards_scraper.extract_cards_from_set_page
extract_cards_from_set_page(rows, sport, year, set_title, set_url) ==
    LET filled ==
            SelectSeq(rows, LAMBDA r :
                normalize_text(r.title) # << >> /\ normalize_text(r.number) # << >>)
        card_rows ==
            SelectSeq(filled, LAMBDA r : ~is_totals_row(normalize_text(r.title)))
        totals_rows ==
            SelectSeq(filled, LAMBDA r : is_totals_row(normalize_text(r.title)))
    IN  [cards |->
            [i \in DOMAIN card_rows |->
                LET url == RowUrl(set_url, card_rows[i])
                IN  [sport |-> sport, year |-> year, set_title |-> set_title,
                     set_url |-> set_url,
                     card_name |-> Str(normalize_text(card_rows[i].title)),
                     card_urls |-> IF card_rows[i].href THEN <<url>> ELSE << >>,
                     metrics |-> extract_metrics_from_row(card_rows[i])]],
         totals |->
            [i \in DOMAIN totals_rows |->
                [scope |-> "set", sport |-> sport, year |-> year,
                 set_title |-> set_title, card_name |-> None,
                 metrics |-> extract_metrics_from_row(totals_rows[i])]]]

\* card_grade_rows_scraper.extract_grade_rows_from_card_page: a row needs
\* its cert_number and its tag_grade
extract_grade_rows_from_card_page(rows, sport, year, set_title, card_name, card_url) ==
    LET graded ==
            SelectSeq(rows, LAMBDA r :
                normalize_text(r.title) # << >> /\ normalize_text(r.rest) # << >>)
    IN  [i \in DOMAIN graded |->
            [sport |-> sport, year |-> year, set_title |-> set_title,
             card_name |-> card_name, card_url |-> card_url,
             cert_number |-> Str(normalize_text(graded[i].title)),
             tag_grade |-> Str(normalize_text(graded[i].rest))]]

\* url_parts[-k] of a url
FromEnd(url, k) == url[Len(url) + 1 - k]

\* extract_sets_from_url: year and sport are the last two parts of the url
extract_sets_from_url(year_url, d) ==
    extract_sets_from_year_page(PageRows(year_url, d), FromEnd(year_url, 2),
                                FromEnd(year_url, 1), year_url)

\* extract_cards_from_url: year and sport are url_parts[-2] and url_parts[-3]
extract_cards_from_url(set_url, set_title, d) ==
    extract_cards_from_set_page(PageRows(set_url, d), FromEnd(set_url, 3),
                                FromEnd(set_url, 2), set_title, set_url)

\* extract_grade_rows_from_url: card name, year and sport are url_parts[-2],
\* url_parts[-4] and url_parts[-5]
extract_grade_rows_from_url(card_url, set_title, d) ==
    extract_grade_rows_from_card_page(PageRows(card_url, d), FromEnd(card_url, 5),
                                      FromEnd(card_url, 4), set_title,
                                      FromEnd(card_url, 2), card_url)

-----------------------------------------------------------------------------
(* The upsert calls each handler of the multi-level orchestrator makes *)

TotalsCalls(totals) ==
    [i \in DOMAIN totals |->
        UpsertCall("upsert_totals_rollups", totals[i].scope, totals[i].sport,
                   totals[i].year, totals[i].set_title, totals[i].card_name,
                   None, None, << >>, totals[i].metrics)]

\* scrape_sport_years_index, lines 86-108
YearsIndexStoreCalls(result) ==
    LET valid == SelectSeq(result.years, LAMBDA y : y.year # "" /\ y.year_url # << >>)
    IN  [i \in DOMAIN valid |->
            UpsertCall("upsert_years_index", None, valid[i].sport, valid[i].year,
                       None, None, None, UrlString(valid[i].year_url), << >>, None)]
        \o TotalsCalls(result.totals)

\* scrape_year_sets, lines 143-169
YearSetsStoreCalls(result) ==
    LET valid ==
            SelectSeq(result.sets, LAMBDA x : x.set_title # "" /\ x.set_urls # << >>)
    IN  [i \in DOMAIN valid |->
            UpsertCall("upsert_sets_per_year", None, valid[i].sport, valid[i].year,
                       valid[i].set_title, None, None,
                       UrlString(valid[i].year_url),
                       [k \in DOMAIN valid[i].set_urls |->
                            UrlString(valid[i].set_urls[k])],
                       valid[i].metrics)]
        \o TotalsCalls(result.totals)

\* scrape_set_cards, lines 206-233
SetCardsStoreCalls(result) ==
    LET valid ==
            SelectSeq(result.cards, LAMBDA x : x.card_name # "" /\ x.card_urls # << >>)
    IN  [i \in DOMAIN valid |->
            UpsertCall("upsert_cards_per_set", None, valid[i].sport, valid[i].year,
                       valid[i].set_title, valid[i].card_name, None,
                       UrlString(valid[i].set_url),
                       [k \in DOMAIN valid[i].card_urls |->
                            UrlString(valid[i].card_urls[k])],
                       valid[i].metrics)]
        \o TotalsCalls(result.totals)

\* scrape_card_grade_rows, lines 265-282
GradeRowsStoreCalls(grade_rows) ==
    [i \in DOMAIN grade_rows |->
        UpsertCall("upsert_card_grade_row", None, grade_rows[i].sport,
                   grade_rows[i].year, grade_rows[i].set_title,
                   grade_rows[i].card_name, grade_rows[i].cert_number,
                   UrlString(grade_rows[i].card_url), << >>,
                   grade_rows[i].tag_grade)]

\* The upsert calls of a handler, one after the other
RECURSIVE ApplyUpserts(_, _, _)
ApplyUpserts(store, cs, t) ==
    IF cs = << >> THEN store
    ELSE ApplyUpserts(upsert(store, Head(cs), t), Tail(cs), t)

\* Some call of the handler inserts a row, and so flushes
Flushes(store, cs, t) ==
    \E tb \in TableNames : Len(ApplyUpserts(store, cs, t)[tb]) > Len(store[tb])


-----------------------------------------------------------------------------
(* SpecCrawl: scrape_multiple_sports / UnifiedPipeline.run_pipeline over   *)
(* the site.  Every sport gets its own MultiLevelOrchestrator and with it  *)
(* its own session.  A session whose flush has failed has rolled its       *)
(* transaction back and refuses every further statement, and its commit,   *)
(* until rollback() is called.                                             *)

SportSet == {SportUrls[i] : i \in DOMAIN SportUrls}
IndexOf(sport) == CHOOSE i \in DOMAIN SportUrls : SportUrls[i] = sport
Concurrencies == {1, 3}

InitCrawl ==
    /\ now = 0
    /\ db = EmptyDb
    /\ deviation \in Deviations
    /\ engine \in {"orchestrator", "unified"}
    /\ concurrency \in Concurrencies
    /\ stage = [sp \in SportSet |-> "waiting"]
    /\ pending = [sp \in SportSet |-> << >>]
    /\ collected = [sp \in SportSet |-> << >>]
    /\ view = [sp \in SportSet |-> EmptyDb]
    /\ session_ok = [sp \in SportSet |-> TRUE]
    /\ summary = [sp \in SportSet |-> None]
    /\ visited = {}
    /\ errors_encountered = 0
    /\ errors_occurred = 0
    /\ IdleUpsert /\ IdleRunners /\ IdleRate /\ IdleRetry /\ IdleCache
    /\ IdleAsync
    /\ IdleFetch
    /\ IdlePool
    /\ IdleRuns
    /\ IdleStats
    /\ IdleTimeout
    /\ IdleFilter
    /\ IdleBulk
    /\ IdleConfig
    /\ IdleGrades
    /\ IdleMonitor

\* The sports of a unified run with concurrency > 1 go to a thread pool;
\* otherwise one sport follows the other
MayStart(sport) ==
    IF engine = "unified" /\ concurrency > 1
    THEN /\ \A j \in 1..(IndexOf(sport) - 1) : stage[SportUrls[j]] # "waiting"
         /\ Cardinality({sp \in SportSet :
                stage[sp] \notin {"waiting", "done", "failed"}}) < concurrency
    ELSE \A j \in 1..(IndexOf(sport) - 1) : stage[SportUrls[j]] \in {"done", "failed"}

\* session.commit(): the rows of the sport's session become durable
CommitRows(committed, v, sport) ==
    [tb \in TableNames |->
        SelectSeq(committed[tb], LAMBDA r : r.sport # sport)
        \o SelectSeq(v[tb], LAMBDA r : r.sport = sport)]

\* A stage that is left while its last child is still to be handled
RECURSIVE AdvanceStage_early(_, _, _)
AdvanceStage_early(st, pend, coll) ==
    IF Len(pend) > 1 THEN [stage |-> st, pending |-> pend, collected |-> coll]
    ELSE IF st = "sets" THEN AdvanceStage_early("cards", coll, << >>)
    ELSE IF st = "cards" THEN AdvanceStage_early("grades", coll, << >>)
    ELSE [stage |-> "commit", pending |-> << >>, collected |-> << >>]

\* The stage that follows when the children of a stage are exhausted
RECURSIVE AdvanceStage(_, _, _)
AdvanceStage(st, pend, coll) ==
    IF pend # << >> THEN [stage |-> st, pending |-> pend, collected |-> coll]
    ELSE IF st = "sets" THEN AdvanceStage("cards", coll, << >>)
    ELSE IF st = "cards" THEN AdvanceStage("grades", coll, << >>)
    ELSE [stage |-> "commit", pending |-> << >>, collected |-> << >>]

Remove(seq, i) == SubSeq(seq, 1, i - 1) \o SubSeq(seq, i + 1, Len(seq))

\* The children a pool of `concurrency` workers may complete next
Completable(sport) ==
    1..(IF Len(pending[sport]) < concurrency THEN Len(pending[sport]) ELSE concurrency)

\* The handlers of one pool run in threads that share the orchestrator's
\* session, which is not made for use by several threads at a time: when
\* another child of the pool can be in flight, a handler's use of the
\* session may collide with it and raise
Collisions(sport) ==
    IF concurrency > 1 /\ Len(pending[sport]) > 1 THEN BOOLEAN ELSE {FALSE}

\* What the try block of a child handler does for the page at `path`:
\* `early` is its "nothing discovered" return, cs its upsert calls, out the
\* children it returns
ChildOutcome(sport, path, early, cs, out, collides) ==
    IF FetchFails(path, deviation)
    THEN [raised |-> TRUE, view |-> view[sport], ok |-> session_ok[sport],
          out |-> << >>]
    ELSE IF early
    THEN [raised |-> FALSE, view |-> view[sport], ok |-> session_ok[sport],
          out |-> << >>]
    ELSE IF cs = << >>
    THEN [raised |-> FALSE, view |-> view[sport], ok |-> session_ok[sport],
          out |-> out]
    ELSE IF ~session_ok[sport]
    THEN [raised |-> TRUE, view |-> view[sport], ok |-> FALSE, out |-> << >>]
    ELSE IF collides \/ (FlushFails(path, deviation) /\ Flushes(view[sport], cs, now))
    THEN [raised |-> TRUE, view |-> db, ok |-> FALSE, out |-> << >>]
    ELSE [raised |-> FALSE, view |-> ApplyUpserts(view[sport], cs, now),
          ok |-> TRUE, out |-> out]

\* scrape_sport_complete, step 1: scrape_sport_years_index in a new session
ScrapeSportYearsIndex(sport) ==
    LET path == <<sport>>
        result == extract_years_index(PageRows(path, deviation), sport)
        cs == YearsIndexStoreCalls(result)
        raises == \/ FetchFails(path, deviation)
                  \/ /\ result.years # << >>
                     /\ FlushFails(path, deviation)
                     /\ Flushes(db, cs, now)
        adv == AdvanceStage("sets",
                            [i \in DOMAIN result.years |-> result.years[i].year_url],
                            << >>)
    IN  /\ stage[sport] = "waiting"
        /\ MayStart(sport)
        /\ visited' = visited \cup {path}
        /\ IF raises
           THEN /\ stage' = [stage EXCEPT ![sport] = "failed"]
                /\ summary' = [summary EXCEPT ![sport] = "error"]
                /\ errors_occurred' = errors_occurred + 1
                /\ errors_encountered' =
                      IF engine = "unified" THEN errors_encountered + 1
                      ELSE errors_encountered
                /\ UNCHANGED <<db, view, pending, collected>>
           ELSE /\ db' = IF result.years = << >> THEN db
                         ELSE CommitRows(db, ApplyUpserts(db, cs, now), sport)
                /\ view' = [view EXCEPT ![sport] = db']
                /\ stage' = [stage EXCEPT ![sport] = adv.stage]
                /\ pending' = [pending EXCEPT ![sport] = adv.pending]
                /\ collected' = [collected EXCEPT ![sport] = adv.collected]
                /\ UNCHANGED <<summary, errors_occurred, errors_encountered>>
        /\ session_ok' = [session_ok EXCEPT ![sport] = TRUE]
        /\ UNCHANGED <<now, deviation, engine, concurrency, outsideCrawl>>

\* The end of a child handler: its outcome o, and the next stage when the
\* last child of the stage has been handled
ChildDone(sport, i, o) ==
    LET adv == AdvanceStage(stage[sport], Remove(pending[sport], i),
                            collected[sport] \o o.out)
    IN  /\ view' = [view EXCEPT ![sport] = o.view]
        /\ session_ok' = [session_ok EXCEPT ![sport] = o.ok]
        /\ errors_occurred' = IF o.raised THEN errors_occurred + 1 ELSE errors_occurred
        /\ stage' = [stage EXCEPT ![sport] = adv.stage]
        /\ pending' = [pending EXCEPT ![sport] = adv.pending]
        /\ collected' = [collected EXCEPT ![sport] = adv.collected]
        /\ UNCHANGED <<now, db, deviation, engine, concurrency, summary,
                       errors_encountered, outsideCrawl>>

\* scrape_year_sets (through scrape_year_sets_with_delay) for one year
ScrapeYearSets(sport, i) ==
    /\ stage[sport] = "sets"
    /\ i \in Completable(sport)
    /\ LET year_url == pending[sport][i]
           result == extract_sets_from_url(year_url, deviation)
       IN  /\ visited' = visited \cup {year_url}
           /\ \E collides \in Collisions(sport) :
                ChildDone(sport, i,
                    ChildOutcome(sport, year_url, result.sets = << >>,
                                 YearSetsStoreCalls(result), result.sets,
                                 collides))

\* scrape_set_cards for one set
ScrapeSetCards(sport, i) ==
    /\ stage[sport] = "cards"
    /\ i \in Completable(sport)
    /\ LET set_data == pending[sport][i]
           set_url == set_data.set_page_url
           result == extract_cards_from_url(set_url, set_data.set_title, deviation)
       IN  IF set_url = << >>
           THEN /\ UNCHANGED visited
                /\ ChildDone(sport, i,
                     [raised |-> FALSE, view |-> view[sport],
                      ok |-> session_ok[sport], out |-> << >>])
           ELSE /\ visited' = visited \cup {set_url}
                /\ \E collides \in Collisions(sport) :
                     ChildDone(sport, i,
                        ChildOutcome(sport, set_url, result.cards = << >>,
                                     SetCardsStoreCalls(result), result.cards,
                                     collides))

\* scrape_card_grade_rows for one card
ScrapeCardGradeRows(sport, i) ==
    /\ stage[sport] = "grades"
    /\ i \in Completable(sport)
    /\ LET card_data == pending[sport][i]
           card_url == card_data.card_urls[1]
           grade_rows ==
               extract_grade_rows_from_url(card_url, card_data.set_title, deviation)
       IN  IF card_data.card_urls = << >>
           THEN /\ UNCHANGED visited
                /\ ChildDone(sport, i,
                     [raised |-> FALSE, view |-> view[sport],
                      ok |-> session_ok[sport], out |-> << >>])
           ELSE /\ visited' = visited \cup {card_url}
                /\ \E collides \in Collisions(sport) :
                     ChildDone(sport, i,
                        ChildOutcome(sport, card_url, FALSE,
                                     GradeRowsStoreCalls(grade_rows), << >>,
                                     collides))

\* scrape_sport_complete, line 414 and after: the final commit, the summary
\* and the session's close; a failed commit ends the sport with an error
CommitSport(sport) ==
    /\ stage[sport] = "commit"
    /\ IF session_ok[sport]
       THEN /\ db' = CommitRows(db, view[sport], sport)
            /\ stage' = [stage EXCEPT ![sport] = "done"]
            /\ summary' = [summary EXCEPT ![sport] = "ok"]
            /\ UNCHANGED <<errors_occurred, errors_encountered>>
       ELSE /\ stage' = [stage EXCEPT ![sport] = "failed"]
            /\ summary' = [summary EXCEPT ![sport] = "error"]
            /\ errors_occurred' = errors_occurred + 1
            /\ errors_encountered' =
                  IF engine = "unified" THEN errors_encountered + 1
                  ELSE errors_encountered
            /\ UNCHANGED db
    /\ view' = [view EXCEPT ![sport] = EmptyDb]
    /\ session_ok' = [session_ok EXCEPT ![sport] = TRUE]
    /\ UNCHANGED <<now, deviation, engine, concurrency, pending, collected,
                   visited, outsideCrawl>>

NextCrawl ==
    \/ \E sp \in SportSet : ScrapeSportYearsIndex(sp)
    \/ \E sp \in SportSet, i \in 1..3 : ScrapeYearSets(sp, i)
    \/ \E sp \in SportSet, i \in 1..3 : ScrapeSetCards(sp, i)
    \/ \E sp \in SportSet, i \in 1..3 : ScrapeCardGradeRows(sp, i)
    \/ \E sp \in SportSet : CommitSport(sp)

SpecCrawl == InitCrawl /\ [][NextCrawl]_vars

\* The run is over
RunOver == \A sp \in SportSet : stage[sp] \in {"done", "failed"}


-----------------------------------------------------------------------------
(* Properties of the crawl *)

\* The store a sport's handlers work on: its session's view while the
\* session is open, the committed store otherwise
StoreOf(sport) ==
    IF stage[sport] \in {"waiting", "done", "failed"} THEN db ELSE view[sport]

SportOf(path) == path[1]

\* The titles of the site that read TOTALS when case is ignored, as stored
TotalsTitles ==
    {Str(normalize_text(r.title)) :
        r \in UNION {{PageRows(p, d)[i] : i \in DOMAIN PageRows(p, d)} :
                        p \in AllPaths, d \in Deviations}}
    \cap {Str(normalize_text(t)) :
            t \in {TOTALS, <<"t", "o", "t", "a", "l", "s">>,
                   <<"T", "o", "t", "a", "l", "s">>}}

Rows(store, tb) == {store[tb][i] : i \in DOMAIN store[tb]}

\* The leaf titles a store holds
LeafTitles(store) ==
    {r.year : r \in Rows(store, "years_index")}
    \cup {r.set_title : r \in Rows(store, "sets_per_year")}
    \cup {r.card_name : r \in Rows(store, "cards_per_set")}

\* C4: at every level a row whose normalized title is TOTALS, whatever its
\* case, is never stored as a year, set or card and is never expanded as a
\* child page
C4_TotalsNeverLeaf ==
    /\ \A sp \in SportSet :
          (LeafTitles(db) \cup LeafTitles(view[sp])) \cap TotalsTitles = {}
    /\ \A p \in visited : \A i \in DOMAIN p : p[i] \notin TotalsTitles

\* A year page with a linked row titled "totals" or " Totals\n" has been
\* scraped, the run is over and the row's rollup is in the store
C4_Witness ==
    /\ RunOver
    /\ deviation.kind \in {"totals_lowercase", "totals_padded"}
    /\ Len(deviation.path) = 2
    /\ deviation.path \in visited
    /\ \E r \in Rows(db, "totals_rollups") :
          r.scope = "year" /\ r.sport = deviation.path[1]
          /\ r.year = deviation.path[2]

\* The page at `path` holds a row whose normalized title is TOTALS
HasTotalsRow(path) ==
    \E i \in DOMAIN PageRows(path, deviation) :
        upper(normalize_text(PageRows(path, deviation)[i].title)) = TOTALS

\* The rollups of the scope of the page at `path`
RollupsOf(store, path) ==
    {i \in DOMAIN store["totals_rollups"] :
        LET r == store["totals_rollups"][i]
        IN  /\ r.sport = path[1]
            /\ r.scope = <<"sport", "year", "set">>[Len(path)]
            /\ r.year = (IF Len(path) >= 2 THEN path[2] ELSE None)
            /\ r.set_title = (IF Len(path) >= 3 THEN path[3] ELSE None)}

\* C5: once a page with a TOTALS row has been fetched and handled, without
\* any fetch or store failure, the store holds exactly one rollup at the
\* page's scope
C5_OneRollupPerTotalsPage ==
    deviation.kind \notin {"fetch_fails", "flush_fails"} =>
        \A p \in visited :
            (/\ Len(p) <= 3 /\ HasTotalsRow(p)
             /\ session_ok[SportOf(p)] /\ summary[SportOf(p)] # "error") =>
                Cardinality(RollupsOf(StoreOf(SportOf(p)), p)) = 1

\* One child's work fails, its fetch or its writes to the store, in a run
\* whose handlers do not overlap
OneChildFails ==
    /\ deviation.kind \in {"fetch_fails", "flush_fails"}
    /\ Len(deviation.path) >= 2
    /\ concurrency = 1

IsPrefix(q, path) == Len(q) <= Len(path) /\ SubSeq(path, 1, Len(q)) = q

\* The committed store holds the row of the page at `path`
Persisted(path) ==
    CASE Len(path) = 2 ->
            \E r \in Rows(db, "years_index") :
                r.sport = path[1] /\ r.year = path[2]
      [] Len(path) = 3 ->
            \E r \in Rows(db, "sets_per_year") :
                r.sport = path[1] /\ r.year = path[2] /\ r.set_title = path[3]
      [] Len(path) = 5 ->
            \E r \in Rows(db, "cards_per_set") :
                /\ r.sport = path[1] /\ r.year = path[2]
                /\ r.set_title = path[3] /\ r.card_name = path[4]

\* The committed store holds the grade rows of the card page at `path`
GradesPersisted(path) ==
    \E r \in Rows(db, "card_grade_rows") :
        /\ r.sport = path[1] /\ r.year = path[2]
        /\ r.set_title = path[3] /\ r.card_name = path[4]

\* C6: when the work for one child fails, then at the end of the run the
\* results of everything that is not below the failed child are persisted
C6_SiblingsPersisted ==
    (OneChildFails /\ RunOver) =>
        \A p \in AllPaths :
            /\ (Len(p) >= 2 /\ ~(IsPrefix(deviation.path, p) /\ deviation.path # p))
                    => Persisted(p)
            /\ (Len(p) = 5 /\ ~IsPrefix(deviation.path, p)) => GradesPersisted(p)

\* The errors the run reports: stats.errors_encountered of the unified
\* pipeline, the error summaries of scrape_multiple_sports
ErrorsReported ==
    IF engine = "unified" THEN errors_encountered
    ELSE Cardinality({sp \in SportSet : summary[sp] = "error"})

\* C9: every error that occurs during a run is counted in the run's
\* statistics
C9_ErrorsCounted == ErrorsReported >= errors_occurred

\* The upsert calls of a strictly sequential scrape_sport_complete over the
\* site: each level's results feed the next level in order
RECURSIVE FlatMap(_, _)
FlatMap(Op(_), seq) ==
    IF seq = << >> THEN << >> ELSE Op(Head(seq)) \o FlatMap(Op, Tail(seq))

SequentialCalls(sport, d) ==
    LET index == IF FetchFails(<<sport>>, d) THEN [years |-> << >>, totals |-> << >>]
                 ELSE extract_years_index(PageRows(<<sport>>, d), sport)
        YearResult(y) ==
            IF FetchFails(y.year_url, d) THEN [sets |-> << >>, totals |-> << >>]
            ELSE extract_sets_from_url(y.year_url, d)
        all_sets == FlatMap(LAMBDA y : YearResult(y).sets, index.years)
        SetResult(x) ==
            IF x.set_page_url = << >> \/ FetchFails(x.set_page_url, d)
            THEN [cards |-> << >>, totals |-> << >>]
            ELSE extract_cards_from_url(x.set_page_url, x.set_title, d)
        all_cards == FlatMap(LAMBDA x : SetResult(x).cards, all_sets)
        GradeRows(c) ==
            IF c.card_urls = << >> \/ FetchFails(c.card_urls[1], d) THEN << >>
            ELSE extract_grade_rows_from_url(c.card_urls[1], c.set_title, d)
    IN  (IF index.years = << >> THEN << >> ELSE YearsIndexStoreCalls(index))
        \o FlatMap(LAMBDA y : IF YearResult(y).sets = << >> THEN << >>
                              ELSE YearSetsStoreCalls(YearResult(y)),
                   index.years)
        \o FlatMap(LAMBDA x : IF SetResult(x).cards = << >> THEN << >>
                              ELSE SetCardsStoreCalls(SetResult(x)),
                   all_sets)
        \o FlatMap(LAMBDA c : GradeRowsStoreCalls(GradeRows(c)), all_cards)

\* The store a strictly sequential run over all sports leaves when no fetch
\* and no write fails
SequentialStore(d) ==
    ApplyUpserts(EmptyDb,
                 FlatMap(LAMBDA sp : SequentialCalls(sp, d), SportUrls), 0)

SameSource == deviation.kind \notin {"fetch_fails", "flush_fails"}

\* C13: for the same source data a run with a concurrency bound above 1
\* ends, in every interleaving, with the rows a strictly sequential run
\* stores
C13_SameAsSequential ==
    (RunOver /\ SameSource) =>
        \A tb \in TableNames :
            Rows(db, tb) = Rows(SequentialStore(deviation), tb)

\* The page a page is discovered on: the index for a year, the year page for
\* a set, the set page for a card
DiscoveredOn(path) ==
    IF Len(path) = 5 THEN SubSeq(path, 1, 3) ELSE SubSeq(path, 1, Len(path) - 1)

\* Every page of the sport that was discovered on a visited page was visited
\* in its turn
AllWorkFinished(sport) ==
    LET index == extract_years_index(PageRows(<<sport>>, deviation), sport)
    IN  \A i \in DOMAIN index.years :
          LET year_url == index.years[i].year_url
              sets == extract_sets_from_url(year_url, deviation).sets
          IN  /\ year_url \in visited
              /\ ~FetchFails(year_url, deviation) =>
                    \A j \in DOMAIN sets :
                      LET set_url == sets[j].set_page_url
                          cards == extract_cards_from_url(
                                       set_url, sets[j].set_title, deviation).cards
                      IN  set_url # << >> =>
                            /\ set_url \in visited
                            /\ ~FetchFails(set_url, deviation) =>
                                  \A k \in DOMAIN cards :
                                     cards[k].card_urls # << >> =>
                                        cards[k].card_urls[1] \in visited

\* C14: a sport's crawl goes through years, sets, cards and grade rows in
\* that order: a page is visited only after the page it is discovered on,
\* no set page is visited while year pages are still being handled and no
\* card page while set pages are, and the sport is done only when all the
\* pages discovered for it have been handled
C14_StagesInOrder ==
    /\ \A p \in visited : Len(p) > 1 => DiscoveredOn(p) \in visited
    /\ \A sp \in SportSet :
        /\ stage[sp] = "waiting" => \A p \in visited : SportOf(p) # sp
        /\ stage[sp] = "sets" => \A p \in visited : SportOf(p) = sp => Len(p) <= 2
        /\ stage[sp] = "cards" => \A p \in visited : SportOf(p) = sp => Len(p) <= 3
        /\ stage[sp] = "done" => pending[sp] = << >> /\ AllWorkFinished(sp)

\* A sport is done after the grade rows of one of its cards were scraped
C14_Witness ==
    \E sp \in SportSet :
        /\ stage[sp] = "done"
        /\ \E p \in visited : SportOf(p) = sp /\ Len(p) = 5

-----------------------------------------------------------------------------
(* SpecAsync: AsyncScrapingPipeline.run_pipeline(sports) over the site,    *)
(* with an empty cache.  The nested loops over sports, years and sets are  *)
(* the worklist async_todo; all of them run inside one try block.          *)

\* str.isdigit()
isdigit(text) == text # << >> /\ \A i \in DOMAIN text : text[i] \in Digits

\* str(int(text)) of a text of digits
RECURSIVE str_int(_)
str_int(text) ==
    IF Len(text) > 1 /\ Head(text) = "0" THEN str_int(Tail(text)) ELSE text

\* element.text(strip=True) of a table row: the stripped texts of its cells
RowText(row, level) ==
    (IF level = 3 THEN strip(row.number) ELSE << >>)
    \o strip(row.title) \o strip(row.rest)

\* tree.css('a[href*="/pop-report/"]') or tree.css('tr'), with the text of
\* each element
AsyncElements(rows, path) ==
    LET anchors == SelectSeq(rows, LAMBDA r : r.href)
    IN  IF anchors # << >>
        THEN [i \in DOMAIN anchors |->
                [text |-> strip(anchors[i].title),
                 href |-> RowUrl(path, anchors[i])]]
        ELSE [i \in DOMAIN rows |->
                [text |-> RowText(rows[i], Len(path)), href |-> << >>]]

\* AsyncWebScraper._extract_years_from_html
_extract_years_from_html(rows, url) ==
    LET kept == SelectSeq(AsyncElements(rows, url), LAMBDA e :
                    e.text # << >> /\ upper(e.text) # TOTALS /\ isdigit(e.text))
    IN  [i \in DOMAIN kept |-> [year |-> Str(str_int(kept[i].text))]]

\* AsyncWebScraper._extract_sets_from_html
_extract_sets_from_html(rows, url) ==
    LET kept == SelectSeq(AsyncElements(rows, url), LAMBDA e :
                    e.text # << >> /\ upper(e.text) # TOTALS)
    IN  [i \in DOMAIN kept |-> [set_name |-> Str(kept[i].text)]]

\* AsyncWebScraper._extract_cards_from_html: the card's url is the href of
\* the element when the element is a link
_extract_cards_from_html(rows, set_url) ==
    LET kept == SelectSeq(AsyncElements(rows, set_url), LAMBDA e :
                    e.text # << >> /\ upper(e.text) # TOTALS)
    IN  [i \in DOMAIN kept |->
            [card_name |-> Str(kept[i].text),
             card_url |-> kept[i].href]]

Iteration(kind, path, urls) == [kind |-> kind, path |-> path, urls |-> urls]

InitAsync ==
    /\ now = 0
    /\ db = EmptyDb
    /\ deviation \in Deviations
    /\ engine = "orchestrator"
    /\ concurrency = 1
    /\ stage = << >>
    /\ pending = << >>
    /\ collected = << >>
    /\ view = << >>
    /\ session_ok = << >>
    /\ summary = << >>
    /\ visited = {}
    /\ errors_encountered = 0
    /\ errors_occurred = 0
    /\ async_pc = "running"
    /\ async_todo = [i \in DOMAIN SportUrls |-> Iteration("sport", <<SportUrls[i]>>, << >>)]
    /\ async_stats = NoStats
    /\ IdleUpsert /\ IdleRunners /\ IdleRate /\ IdleRetry /\ IdleCache
    /\ IdleFetch
    /\ IdlePool
    /\ IdleRuns
    /\ IdleStats
    /\ IdleTimeout
    /\ year_filter \in YearFilters
    /\ IdleBulk
    /\ IdleConfig
    /\ IdleGrades
    /\ IdleMonitor

UnchangedByAsync ==
    UNCHANGED <<deviation, engine, concurrency, stage, pending, collected, view,
                session_ok, summary, errors_encountered, errors_occurred,
                outsideAsync>>

\* One iteration of a loop of run_pipeline whose scrape fetches `path`: the
\* counter of the loop goes up; a failed fetch leaves the try block through
\* `except Exception`, which counts one error and raises again
AsyncIteration(kind, counter, next) ==
    /\ async_pc = "running"
    /\ async_todo # << >>
    /\ Head(async_todo).kind = kind
    /\ LET path == Head(async_todo).path
       IN  /\ visited' = visited \cup {path}
           /\ IF FetchFails(path, deviation)
              THEN /\ async_pc' = "aborted"
                   /\ async_todo' = << >>
                   /\ async_stats' =
                         [async_stats EXCEPT ![counter] = @ + 1, !.errors = @ + 1]
              ELSE /\ async_pc' = "running"
                   /\ async_todo' = next \o Tail(async_todo)
                   /\ async_stats' = [async_stats EXCEPT ![counter] = @ + 1]
    /\ UnchangedByAsync

\* for category in categories: years = await self.scrape_years(sport)
AsyncScrapeYears ==
    /\ async_todo # << >>
    /\ LET path == Head(async_todo).path
           extracted == _extract_years_from_html(PageRows(path, deviation), path)
           years == IF year_filter = {} THEN extracted
                    ELSE SelectSeq(extracted, LAMBDA y : y.year \in year_filter)
       IN  AsyncIteration("sport", "categories_processed",
                [i \in DOMAIN years |->
                    Iteration("year", Append(path, years[i].year), << >>)])

\* for year_data in years: sets = await self.scrape_sets(sport, year)
AsyncScrapeSets ==
    /\ async_todo # << >>
    /\ LET path == Head(async_todo).path
           sets == _extract_sets_from_html(PageRows(path, deviation), path)
       IN  AsyncIteration("year", "years_processed",
                [i \in DOMAIN sets |->
                    Iteration("set", Append(path, sets[i].set_name), << >>)])

\* for set_data in sets: cards = await self.scrape_cards(sport, year, set_name)
AsyncScrapeCards ==
    /\ async_todo # << >>
    /\ LET path == Head(async_todo).path
           cards == _extract_cards_from_html(PageRows(path, deviation), path)
           linked == SelectSeq(cards, LAMBDA c : c.card_url # << >>)
       IN  AsyncIteration("set", "sets_processed",
                IF linked = << >> THEN << >>
                ELSE <<Iteration("batch", path,
                                 [i \in DOMAIN linked |-> linked[i].card_url])>>)

\* process_cards_batch: every card's details are fetched in a task of its
\* own, which counts the card or, when the fetch fails, one error
AsyncProcessCardsBatch ==
    /\ async_pc = "running"
    /\ async_todo # << >>
    /\ Head(async_todo).kind = "batch"
    /\ LET card_urls == Head(async_todo).urls
           failed == {i \in DOMAIN card_urls : FetchFails(card_urls[i], deviation)}
       IN  /\ visited' = visited \cup {card_urls[i] : i \in DOMAIN card_urls}
           /\ async_stats' =
                 [async_stats EXCEPT
                    !.cards_processed = @ + Len(card_urls) - Cardinality(failed),
                    !.errors = @ + Cardinality(failed)]
    /\ async_todo' = Tail(async_todo)
    /\ UNCHANGED async_pc
    /\ UnchangedByAsync

\* return self.get_pipeline_stats()
AsyncReturn ==
    /\ async_pc = "running"
    /\ async_todo = << >>
    /\ async_pc' = "finished"
    /\ UNCHANGED <<async_todo, async_stats, visited>>
    /\ UnchangedByAsync

NextAsync ==
    \/ AsyncScrapeYears
    \/ AsyncScrapeSets
    \/ AsyncScrapeCards
    \/ AsyncProcessCardsBatch
    \/ AsyncReturn

SpecAsync == InitAsync /\ [][NextAsync]_vars

\* C7: when the top-level discovery of one sport fails, the run records an
\* error for it and still runs every other sport of the invocation
C7_OtherSportsStillRun ==
    (/\ deviation.kind = "fetch_fails"
     /\ Len(deviation.path) = 1
     /\ async_pc \in {"finished", "aborted"})
        => /\ async_stats.errors >= 1
           /\ \A i \in DOMAIN SportUrls : <<SportUrls[i]>> \in visited

-----------------------------------------------------------------------------
(* SpecFetch: AsyncWebScraper.fetch_html_async over AsyncHTTPClient.       *)
(* fetch_html.  What the network answers to a request is not the client's  *)
(* choice: the lightweight request yields a static page, an application    *)
(* shell or an error, the rendering path a page or an error.               *)

FetchUrls == {"/Baseball", "/Hockey"}

\* AsyncHTTPClient.cache_ttl, in hours
cache_ttl == 1

\* AsyncHTTPClient._is_cache_valid
ClientCacheValid(cache_entry) ==
    enable_cache /\ now - cache_entry.timestamp < cache_ttl

\* AsyncWebScraper._needs_javascript
_needs_javascript(html) == html = "shell"

InitFetch ==
    /\ now = 0
    /\ db = EmptyDb
    /\ _cache = << >>
    /\ _js_required_urls = {}
    /\ enable_cache \in BOOLEAN
    /\ use_playwright_fallback \in BOOLEAN
    /\ fetches = 0
    /\ rendered = {}
    /\ last_fetch = NoFetch
    /\ IdleUpsert /\ IdleRunners /\ IdleRate /\ IdleRetry /\ IdleCache
    /\ IdleCrawl /\ IdleAsync
    /\ IdlePool
    /\ IdleRuns
    /\ IdleStats
    /\ IdleTimeout
    /\ IdleFilter
    /\ IdleBulk
    /\ IdleConfig
    /\ IdleGrades
    /\ IdleMonitor

TickFetch ==
    /\ now < MaxFetchTime
    /\ now' = now + 1
    /\ UNCHANGED <<fetchVars, outsideFetch>>

\* AsyncHTTPClient.fetch_html(url) when the request answers `answer`: the
\* content returned, or "error", and the cache as the call leaves it
fetch_html(url, answer) ==
    IF enable_cache /\ url \in DOMAIN _cache /\ ClientCacheValid(_cache[url])
    THEN [content |-> _cache[url].content, cache |-> _cache]
    ELSE IF answer = "error"
    THEN [content |-> "error", cache |-> _cache]
    ELSE [content |-> answer,
          cache |-> IF enable_cache
                    THEN Put(_cache, url, [content |-> answer, timestamp |-> now])
                    ELSE _cache]

\* AsyncWebScraper.fetch_html_async(url): answer is what the lightweight
\* request yields, browser what each call of _fetch_with_playwright yields
FetchHtmlAsync(url, answer, browser) ==
    LET light == fetch_html(url, answer)
        known == url \in _js_required_urls
        needs == light.content # "error" /\ _needs_javascript(light.content)
        \* the except branch is reached by a failed lightweight fetch and by
        \* a failed rendering of a page judged to need it
        excepted == light.content = "error" \/ (needs /\ browser = "error")
        fallback == ~known /\ (needs \/ (excepted /\ use_playwright_fallback))
        result ==
            IF known \/ fallback
            THEN (IF browser = "error" THEN "error" ELSE "rendered")
            ELSE IF excepted THEN "error" ELSE "html"
    IN  /\ fetches < MaxFetches
        /\ fetches' = fetches + 1
        /\ _cache' = IF known THEN _cache ELSE light.cache
        /\ _js_required_urls' =
              IF ~known /\ needs THEN _js_required_urls \cup {url}
              ELSE _js_required_urls
        /\ rendered' =
              IF fallback /\ result = "rendered" THEN rendered \cup {url}
              ELSE rendered
        /\ last_fetch' =
              [url |-> url, time |-> now,
               expired |-> /\ ~known /\ enable_cache /\ url \in DOMAIN _cache
                           /\ ~ClientCacheValid(_cache[url]),
               lightweight |-> ~known,
               requested |-> /\ ~known
                             /\ ~(/\ enable_cache /\ url \in DOMAIN _cache
                                  /\ ClientCacheValid(_cache[url])),
               rendered_before |-> url \in rendered,
               result |-> result]
        /\ UNCHANGED <<now, enable_cache, use_playwright_fallback, outsideFetch>>

NextFetch ==
    \/ TickFetch
    \/ \E url \in FetchUrls, answer \in {"static", "shell", "error"},
          browser \in {"page", "error"} : FetchHtmlAsync(url, answer, browser)

SpecFetch == InitFetch /\ [][NextFetch]_vars

\* C11: a read of a cache entry whose timestamp + TTL has passed is a miss,
\* and after the read the expired entry is no longer in the cache
C11_ExpiredEntryRemoved ==
    (last_fetch.expired /\ now = last_fetch.time) =>
        /\ last_fetch.requested
        /\ \/ last_fetch.url \notin DOMAIN _cache
           \/ ClientCacheValid(_cache[last_fetch.url])

\* C20: a fetch of a url that an earlier fetch served through the rendering
\* fallback makes no lightweight attempt
C20_RenderedUrlSkipsLightweight ==
    last_fetch.rendered_before => ~last_fetch.lightweight

-----------------------------------------------------------------------------
(* SpecPool: the thread pools of a run.  UnifiedPipeline.run_pipeline      *)
(* submits the sports to a ThreadPoolExecutor(max_workers=concurrency);    *)
(* each sport's MultiLevelOrchestrator, built with the same concurrency,   *)
(* opens one ThreadPoolExecutor(max_workers=concurrency) per level and     *)
(* leaves it when all its children have finished.  An executor runs at     *)
(* most max_workers submitted calls at a time.                             *)

PoolConcurrencies == {1, 2}
Levels == 1..3

\* The pages a sport's pool of a level works on: year pages, set pages,
\* card pages
ChildrenAt(sport, level) ==
    {path \in AllPaths :
        path[1] = sport /\ Len(path) = (IF level = 3 THEN 5 ELSE level + 1)}

\* max_workers of a pool; without a pool the loop runs one child at a time
Workers == IF concurrency > 1 THEN concurrency ELSE 1

InitPool ==
    /\ now = 0
    /\ db = EmptyDb
    /\ engine \in {"orchestrator", "unified"}
    /\ concurrency \in PoolConcurrencies
    /\ deviation = NoDeviation
    /\ stage = << >>
    /\ pending = << >>
    /\ collected = << >>
    /\ view = << >>
    /\ session_ok = << >>
    /\ summary = << >>
    /\ visited = {}
    /\ errors_encountered = 0
    /\ errors_occurred = 0
    /\ sport_task = [sp \in SportSet |-> "queued"]
    /\ level_of = [sp \in SportSet |-> 0]
    /\ queued = [sp \in SportSet |-> 0]
    /\ running = [sp \in SportSet |-> 0]
    /\ IdleUpsert /\ IdleRunners /\ IdleRate /\ IdleRetry /\ IdleCache
    /\ IdleAsync /\ IdleFetch
    /\ IdleRuns
    /\ IdleStats
    /\ IdleTimeout
    /\ IdleFilter
    /\ IdleBulk
    /\ IdleConfig
    /\ IdleGrades
    /\ IdleMonitor

UnchangedByPool ==
    UNCHANGED <<engine, concurrency, deviation, stage, pending, collected, view,
                session_ok, summary, visited, errors_encountered,
                errors_occurred, outsidePool>>

\* A worker of the sports' pool, or the sequential loop, calls
\* scrape_sport_complete: the years index is scraped and the years are
\* submitted to the first pool
SportStart(sport) ==
    /\ sport_task[sport] = "queued"
    /\ IF engine = "unified" /\ concurrency > 1
       THEN /\ \A j \in 1..(IndexOf(sport) - 1) :
                    sport_task[SportUrls[j]] # "queued"
            /\ Cardinality({sp \in SportSet : sport_task[sp] = "running"})
                    < concurrency
       ELSE \A j \in 1..(IndexOf(sport) - 1) : sport_task[SportUrls[j]] = "done"
    /\ sport_task' = [sport_task EXCEPT ![sport] = "running"]
    /\ level_of' = [level_of EXCEPT ![sport] = 1]
    /\ queued' = [queued EXCEPT ![sport] = Cardinality(ChildrenAt(sport, 1))]
    /\ UNCHANGED running
    /\ UnchangedByPool

\* A free worker of the sport's pool takes the next submitted call
ChildStart(sport) ==
    /\ sport_task[sport] = "running"
    /\ queued[sport] > 0
    /\ running[sport] < Workers
    /\ queued' = [queued EXCEPT ![sport] = @ - 1]
    /\ running' = [running EXCEPT ![sport] = @ + 1]
    /\ UNCHANGED <<sport_task, level_of>>
    /\ UnchangedByPool

\* The call returns
ChildFinish(sport) ==
    /\ running[sport] > 0
    /\ running' = [running EXCEPT ![sport] = @ - 1]
    /\ UNCHANGED <<sport_task, level_of, queued>>
    /\ UnchangedByPool

\* All children of the level are done: the with block of the pool ends and
\* the next level's children are submitted, or the sport is finished
LevelDone(sport) ==
    /\ sport_task[sport] = "running"
    /\ queued[sport] = 0
    /\ running[sport] = 0
    /\ IF level_of[sport] < 3
       THEN /\ level_of' = [level_of EXCEPT ![sport] = @ + 1]
            /\ queued' = [queued EXCEPT ![sport] =
                            Cardinality(ChildrenAt(sport, level_of[sport] + 1))]
            /\ UNCHANGED sport_task
       ELSE /\ level_of' = [level_of EXCEPT ![sport] = 0]
            /\ sport_task' = [sport_task EXCEPT ![sport] = "done"]
            /\ UNCHANGED queued
    /\ UNCHANGED running
    /\ UnchangedByPool

NextPool ==
    \/ \E sp \in SportSet : SportStart(sp)
    \/ \E sp \in SportSet : ChildStart(sp)
    \/ \E sp \in SportSet : ChildFinish(sp)
    \/ \E sp \in SportSet : LevelDone(sp)

SpecPool == InitPool /\ [][NextPool]_vars

RECURSIVE SumOver(_, _)
SumOver(f, S) ==
    IF S = {} THEN 0
    ELSE LET x == CHOOSE x \in S : TRUE IN f[x] + SumOver(f, S \ {x})

\* The child operations of a level that are in flight
InFlight(level) == SumOver(running, {sp \in SportSet : level_of[sp] = level})

\* C12: at every level the number of child operations in flight never
\* exceeds the configured concurrency bound
C12_InFlightBounded ==
    /\ Cardinality({sp \in SportSet : sport_task[sp] = "running"}) <= Workers
    /\ \A level \in Levels : InFlight(level) <= Workers


-----------------------------------------------------------------------------
(* SpecRuns: runs of one pipeline entry point over the same site, one     *)
(* after the other, each run with or without dry_run.  The entry points   *)
(* are FiveTierPipeline.scrape_category_years (inside the pipeline's      *)
(* context manager), FiveTierPipeline.run_pipeline, new_pipeline's        *)
(* scrape_single_sport and UnifiedPipeline.scrape_sport_complete; the     *)
(* orchestrator below them works with concurrency 1.                      *)

outsideRuns ==
    <<upsertVars, runnerVars, rateVars, retryVars, cacheVars, asyncVars,
      fetchVars, poolVars,
      statVars,
      timeoutVars,
      filterVars,
      bulkVars,
      configVars,
      gradeVars,
      monitorVars>>

Pipelines == {"five_tier_years", "five_tier", "new_pipeline", "unified"}

\* The source data of the runs: every page can be fetched and every write
\* is accepted
Fixtures == {d \in Deviations : d.kind \notin {"fetch_fails", "flush_fails"}}

\* The summary scrape_sport_complete returns for a sport
SequentialSummary(sport, d) ==
    LET index == extract_years_index(PageRows(<<sport>>, d), sport)
        YearResult(y) ==
            IF FetchFails(y.year_url, d) THEN [sets |-> << >>, totals |-> << >>]
            ELSE extract_sets_from_url(y.year_url, d)
        all_sets == FlatMap(LAMBDA y : YearResult(y).sets, index.years)
        SetResult(x) ==
            IF x.set_page_url = << >> \/ FetchFails(x.set_page_url, d)
            THEN [cards |-> << >>, totals |-> << >>]
            ELSE extract_cards_from_url(x.set_page_url, x.set_title, d)
        all_cards == FlatMap(LAMBDA x : SetResult(x).cards, all_sets)
        GradeRows(c) ==
            IF c.card_urls = << >> \/ FetchFails(c.card_urls[1], d) THEN << >>
            ELSE extract_grade_rows_from_url(c.card_urls[1], c.set_title, d)
    IN  [years_found |-> Len(index.years),
         total_sets |-> Len(all_sets),
         total_cards |-> Len(all_cards),
         total_grade_rows |-> Len(FlatMap(LAMBDA c : GradeRows(c), all_cards)),
         pages_scraped |-> 1 + Len(index.years) + Len(all_sets) + Len(all_cards)]

\* The upserts of scrape_category_years, lines 294-324: every year, then
\* every totals row
CategoryYearsCalls(result) ==
    [i \in DOMAIN result.years |->
        UpsertCall("upsert_years_index", None, result.years[i].sport,
                   result.years[i].year, None, None, None,
                   UrlString(result.years[i].year_url), << >>, None)]
    \o TotalsCalls(result.totals)

RowCounts(store) == [tb \in TableNames |-> Len(store[tb])]

InitRuns ==
    /\ now = 0
    /\ db = EmptyDb
    /\ deviation \in Fixtures
    /\ engine = "orchestrator"
    /\ concurrency = 1
    /\ stage = << >>
    /\ pending = << >>
    /\ collected = << >>
    /\ view = << >>
    /\ session_ok = << >>
    /\ summary = << >>
    /\ visited = {}
    /\ errors_encountered = 0
    /\ errors_occurred = 0
    /\ pipeline \in Pipelines
    /\ run_phase = "idle"
    /\ dry_run = FALSE
    /\ run_no = 0
    /\ run_todo = << >>
    /\ run_session = << >>
    /\ run_stats = NoRunStats
    /\ reports = << >>
    /\ IdleUpsert /\ IdleRunners /\ IdleRate /\ IdleRetry /\ IdleCache
    /\ IdleAsync /\ IdleFetch /\ IdlePool
    /\ IdleStats
    /\ IdleTimeout
    /\ year_filter \in YearFilters
    /\ IdleBulk
    /\ IdleConfig
    /\ IdleGrades
    /\ IdleMonitor

UnchangedByRuns == UNCHANGED <<crawlVars, outsideRuns>>

\* Time passes between two runs
TickRuns ==
    /\ run_phase = "idle"
    /\ now < MaxTime
    /\ now' = now + 1
    /\ UNCHANGED <<db, runVars>>
    /\ UnchangedByRuns

\* A pipeline is constructed with its dry_run flag and entered:
\* FiveTierPipeline.__enter__ opens a session unless dry_run is set
StartRun(flag) ==
    /\ run_phase = "idle"
    /\ run_no < MaxRuns
    /\ run_phase' = "running"
    /\ run_no' = run_no + 1
    /\ dry_run' = flag
    /\ run_todo' = SportUrls
    /\ run_session' = IF pipeline = "five_tier_years" /\ ~flag THEN db ELSE << >>
    /\ run_stats' = [NoRunStats EXCEPT !.store_at_start = db]
    /\ UNCHANGED <<now, db, pipeline, reports>>
    /\ UnchangedByRuns

\* FiveTierPipeline.log_upsert for n rows: a live run counts each of them
\* as an insert, whatever the store already holds
log_upsert(stats, n) ==
    IF dry_run THEN stats
    ELSE [stats EXCEPT !.rows_inserted = @ + n]

\* FiveTierPipeline.scrape_category_years(category)
ScrapeCategoryYears ==
    /\ pipeline = "five_tier_years"
    /\ run_phase = "running"
    /\ run_todo # << >>
    /\ LET category == Head(run_todo)
           result == extract_years_index(PageRows(<<category>>, deviation), category)
           cs == CategoryYearsCalls(result)
           logged == log_upsert(run_stats, Len(cs))
       IN  /\ run_session' = IF dry_run THEN run_session
                             ELSE ApplyUpserts(run_session, cs, now)
           /\ run_stats' =
                [logged EXCEPT
                    !.pages_scraped = @ + 1,
                    !.totals_captured = @ + Len(result.totals),
                    !.persistence_calls = IF dry_run THEN @ ELSE @ + Len(cs),
                    !.total_years = @ + Len(result.years)]
    /\ run_todo' = Tail(run_todo)
    /\ UNCHANGED <<now, db, pipeline, run_phase, dry_run, run_no, reports>>
    /\ UnchangedByRuns

\* FiveTierPipeline.run_pipeline(categories): a dry run lists the urls and
\* returns zero counts; a live run hands the sports to
\* scrape_multiple_sports, which scrapes them one after the other (each step
\* is one sport), and adds their summaries up
FiveTierRunPipeline ==
    /\ pipeline = "five_tier"
    /\ run_phase = "running"
    /\ run_todo # << >>
    /\ LET sport == Head(run_todo)
           cs == SequentialCalls(sport, deviation)
           sums == SequentialSummary(sport, deviation)
       IN  IF dry_run
           THEN /\ run_todo' = << >>
                /\ UNCHANGED <<db, run_stats>>
           ELSE /\ run_todo' = Tail(run_todo)
                /\ db' = ApplyUpserts(db, cs, now)
                /\ run_stats' =
                     [run_stats EXCEPT
                         !.persistence_calls = @ + Len(cs),
                         !.total_years = @ + sums.years_found,
                         !.total_sets = @ + sums.total_sets,
                         !.total_cards = @ + sums.total_cards,
                         !.total_grade_rows = @ + sums.total_grade_rows]
    /\ UNCHANGED <<now, pipeline, run_phase, dry_run, run_no, run_session, reports>>
    /\ UnchangedByRuns

\* new_pipeline.scrape_single_sport(sport, dry_run=...): a dry run returns a
\* "simulated" summary that holds no counts
ScrapeSingleSport ==
    /\ pipeline = "new_pipeline"
    /\ run_phase = "running"
    /\ run_todo # << >>
    /\ LET sport == Head(run_todo)
           cs == SequentialCalls(sport, deviation)
           sums == SequentialSummary(sport, deviation)
       IN  IF dry_run
           THEN /\ run_stats' = [run_stats EXCEPT !.counted = FALSE]
                /\ UNCHANGED db
           ELSE /\ db' = ApplyUpserts(db, cs, now)
                /\ run_stats' =
                     [run_stats EXCEPT
                         !.persistence_calls = @ + Len(cs),
                         !.total_years = @ + sums.years_found,
                         !.total_sets = @ + sums.total_sets,
                         !.total_cards = @ + sums.total_cards,
                         !.total_grade_rows = @ + sums.total_grade_rows,
                         !.pages_scraped = @ + sums.pages_scraped]
    /\ run_todo' = Tail(run_todo)
    /\ UNCHANGED <<now, pipeline, run_phase, dry_run, run_no, run_session, reports>>
    /\ UnchangedByRuns

\* UnifiedPipeline.scrape_sport_complete(sport_url): the orchestrator runs
\* whatever config.dry_run says; the summary has no 'total_totals'
UnifiedScrapeSportComplete ==
    /\ pipeline = "unified"
    /\ run_phase = "running"
    /\ run_todo # << >>
    /\ LET sport == Head(run_todo)
           cs == SequentialCalls(sport, deviation)
           sums == SequentialSummary(sport, deviation)
       IN  /\ db' = ApplyUpserts(db, cs, now)
           /\ run_stats' =
                [run_stats EXCEPT
                    !.persistence_calls = @ + Len(cs),
                    !.total_years = @ + sums.years_found,
                    !.total_sets = @ + sums.total_sets,
                    !.total_cards = @ + sums.total_cards,
                    !.total_grade_rows = @ + sums.total_grade_rows,
                    !.totals_captured = @ + 0,
                    !.pages_scraped = @ + sums.pages_scraped]
    /\ run_todo' = Tail(run_todo)
    /\ UNCHANGED <<now, pipeline, run_phase, dry_run, run_no, run_session, reports>>
    /\ UnchangedByRuns

\* The run ends: FiveTierPipeline.__exit__ commits its session if it has
\* one, and the run's statistics and results are reported
EndRun ==
    /\ run_phase = "running"
    /\ run_todo = << >>
    /\ db' = IF pipeline = "five_tier_years" /\ ~dry_run THEN run_session ELSE db
    /\ reports' =
         Append(reports,
                [dry_run |-> dry_run, stats |-> run_stats,
                 changed |-> db' # run_stats.store_at_start,
                 row_counts |-> RowCounts(db')])
    /\ run_phase' = "idle"
    /\ run_session' = << >>
    /\ UNCHANGED <<now, pipeline, dry_run, run_no, run_todo, run_stats>>
    /\ UnchangedByRuns

NextRuns ==
    \/ TickRuns
    \/ \E flag \in BOOLEAN : StartRun(flag)
    \/ ScrapeCategoryYears
    \/ FiveTierRunPipeline
    \/ ScrapeSingleSport
    \/ UnifiedScrapeSportComplete
    \/ EndRun

SpecRuns == InitRuns /\ [][NextRuns]_vars

\* The counts of discovered items a report holds
Discovered(report) ==
    [counted |-> report.stats.counted,
     total_years |-> report.stats.total_years,
     total_sets |-> report.stats.total_sets,
     total_cards |-> report.stats.total_cards,
     total_grade_rows |-> report.stats.total_grade_rows]

\* C15: a run with dry_run enabled makes no persistence call, and no row of
\* any table is inserted or updated during the run
C15_DryRunPersistsNothing ==
    \A i \in DOMAIN reports :
        reports[i].dry_run =>
            reports[i].stats.persistence_calls = 0 /\ ~reports[i].changed

\* C16: a dry run reports the counts of discovered items a live run over
\* the same source data reports
C16_DryRunSameCounts ==
    \A i, j \in DOMAIN reports :
        (reports[i].dry_run /\ ~reports[j].dry_run) =>
            /\ Discovered(reports[i]).counted
            /\ Discovered(reports[i]) = Discovered(reports[j])

\* The rows of all tables together
TotalRows(counts) ==
    counts["years_index"] + counts["sets_per_year"] + counts["cards_per_set"]
    + counts["card_grade_rows"] + counts["totals_rollups"]

\* C17: a second run over the same source data leaves the row count of
\* every table as it was, and reports no insert and as many updates as rows
\* were written before
C17_SecondRunOnlyUpdates ==
    \A i \in DOMAIN reports :
        (i > 1 /\ ~reports[i].dry_run /\ ~reports[i - 1].dry_run) =>
            /\ reports[i].row_counts = reports[i - 1].row_counts
            /\ reports[i].stats.rows_inserted = 0
            /\ reports[i].stats.rows_updated =
                  TotalRows(reports[i - 1].row_counts)


\* C29: the totals_captured figure of a live run's statistics is the number
\* of TOTALS rollups the run wrote, summed over its sports: for a first
\* run, into an empty store, the number of rollups the store then holds
\* (new_pipeline.py reports no such figure)
C29_TotalsCapturedCounted ==
    (reports # << >> /\ ~reports[1].dry_run /\ pipeline # "new_pipeline") =>
        reports[1].stats.totals_captured = reports[1].row_counts["totals_rollups"]

-----------------------------------------------------------------------------
(* SpecStats: the statistics of a run under concurrency.  The unified     *)
(* pipeline runs scrape_sport_complete for every sport in the threads of  *)
(* a pool; each call adds its result to UnifiedPipeline.stats inside      *)
(* `with self.lock`.  A += on an attribute loads the value, adds and      *)
(* stores it, and a thread switch can fall between the load and the       *)
(* store.  The async pipeline's card tasks run on one event loop and      *)
(* update its stats between two awaits.                                   *)

outsideStats ==
    <<upsertVars, runnerVars, rateVars, retryVars, cacheVars, fetchVars,
      poolVars, runVars,
      timeoutVars,
      filterVars,
      bulkVars,
      configVars,
      gradeVars,
      monitorVars>>

StatConcurrencies == {1, 3}
YearsFound == 0..2
NoResult == [error |-> FALSE, years_found |-> 0]

\* What the orchestrator hands to scrape_sport_complete: a summary with the
\* years it found, or an exception
ScrapeResults ==
    {[error |-> FALSE, years_found |-> n] : n \in YearsFound}
    \cup {[error |-> TRUE, years_found |-> 0]}
NumTasks == 2
Tasks == 1..NumTasks

InitStats ==
    /\ now = 0
    /\ db = EmptyDb
    /\ deviation = NoDeviation
    /\ engine = "unified"
    /\ concurrency \in StatConcurrencies
    /\ stage = << >>
    /\ pending = << >>
    /\ collected = << >>
    /\ view = << >>
    /\ session_ok = << >>
    /\ summary = << >>
    /\ visited = {}
    /\ errors_encountered = 0
    /\ errors_occurred = 0
    /\ stat_pc = [sp \in SportSet |-> "queued"]
    /\ stat_result = [sp \in SportSet |-> NoResult]
    /\ stat_lock = None
    /\ stat_tmp = [sp \in SportSet |-> 0]
    /\ unified_stats = NoUnifiedStats
    /\ task_pc = [t \in Tasks |-> "pending"]
    /\ performed = NothingPerformed
    /\ contended = FALSE
    /\ async_pc = "idle"
    /\ async_todo = << >>
    /\ async_stats = NoStats
    /\ IdleUpsert /\ IdleRunners /\ IdleRate /\ IdleRetry /\ IdleCache
    /\ IdleFetch /\ IdlePool /\ IdleRuns
    /\ IdleTimeout
    /\ IdleFilter
    /\ IdleBulk
    /\ IdleConfig
    /\ IdleGrades
    /\ IdleMonitor

UnchangedByStats == UNCHANGED <<storeVars, crawlVars, outsideStats>>

\* The pool of run_pipeline has a free thread for the sport; with
\* concurrency 1 the sports are scraped one after the other
WorkerMayStart(sport) ==
    IF concurrency > 1
    THEN /\ \A j \in 1..(IndexOf(sport) - 1) : stat_pc[SportUrls[j]] # "queued"
         /\ Cardinality({sp \in SportSet : stat_pc[sp] \notin {"queued", "done"}})
                < concurrency
    ELSE \A j \in 1..(IndexOf(sport) - 1) : stat_pc[SportUrls[j]] = "done"

\* The counter a call adds to: years_discovered for a result,
\* errors_encountered for an exception
CounterOf(sport) ==
    IF stat_result[sport].error THEN "errors_encountered" ELSE "years_discovered"

AmountOf(sport) ==
    IF stat_result[sport].error THEN 1 ELSE stat_result[sport].years_found

\* scrape_sport_complete up to the lock: the orchestrator returns a summary
\* or raises
WorkerScrape(sport) ==
    /\ stat_pc[sport] = "queued"
    /\ WorkerMayStart(sport)
    /\ \E result \in ScrapeResults :
         stat_result' = [stat_result EXCEPT ![sport] = result]
    /\ stat_pc' = [stat_pc EXCEPT ![sport] = "at_lock"]
    /\ contended' = (contended \/ stat_lock # None)
    /\ UNCHANGED <<stat_lock, stat_tmp, unified_stats, task_pc, performed,
                   asyncVars>>
    /\ UnchangedByStats

\* threading.Lock: it can be acquired when no thread holds it
LockAvailable_never_held == TRUE

LockAvailable == stat_lock = None

\* `with self.lock:` is entered
WorkerAcquire(sport) ==
    /\ stat_pc[sport] = "at_lock"
    /\ LockAvailable
    /\ stat_lock' = sport
    /\ stat_pc' = [stat_pc EXCEPT ![sport] = "load"]
    /\ UNCHANGED <<stat_result, stat_tmp, unified_stats, task_pc, performed,
                   contended, asyncVars>>
    /\ UnchangedByStats

\* self.stats.<counter> += amount, first half: the value is loaded
WorkerLoad(sport) ==
    /\ stat_pc[sport] = "load"
    /\ stat_tmp' = [stat_tmp EXCEPT ![sport] = unified_stats[CounterOf(sport)]]
    /\ stat_pc' = [stat_pc EXCEPT ![sport] = "store"]
    /\ UNCHANGED <<stat_result, stat_lock, unified_stats, task_pc, performed,
                   contended, asyncVars>>
    /\ UnchangedByStats

\* second half: the sum is stored
WorkerStore(sport) ==
    /\ stat_pc[sport] = "store"
    /\ unified_stats' =
         [unified_stats EXCEPT
             ![CounterOf(sport)] = stat_tmp[sport] + AmountOf(sport)]
    /\ performed' = [performed EXCEPT ![CounterOf(sport)] = @ + AmountOf(sport)]
    /\ stat_pc' = [stat_pc EXCEPT ![sport] = "release"]
    /\ UNCHANGED <<stat_result, stat_lock, stat_tmp, task_pc, contended,
                   asyncVars>>
    /\ UnchangedByStats

\* the with block is left and the call returns
WorkerRelease(sport) ==
    /\ stat_pc[sport] = "release"
    /\ stat_lock' = None
    /\ stat_pc' = [stat_pc EXCEPT ![sport] = "done"]
    /\ UNCHANGED <<stat_result, stat_tmp, unified_stats, task_pc, performed,
                   contended, asyncVars>>
    /\ UnchangedByStats

\* process_cards_batch, fetch_card_detail resumed after its await: details
\* count as a processed card, an exception as an error; no await lies
\* between the read and the write of the counter
CardTaskResumes(t) ==
    /\ task_pc[t] = "pending"
    /\ \E outcome \in {"details", "nothing", "error"} :
         LET counter == IF outcome = "error" THEN "errors" ELSE "cards_processed"
             amount == IF outcome = "nothing" THEN 0 ELSE 1
         IN  /\ async_stats' = [async_stats EXCEPT ![counter] = @ + amount]
             /\ performed' = [performed EXCEPT ![counter] = @ + amount]
    /\ task_pc' = [task_pc EXCEPT ![t] = "done"]
    /\ UNCHANGED <<stat_pc, stat_result, stat_lock, stat_tmp, unified_stats,
                   contended, async_pc, async_todo>>
    /\ UnchangedByStats

NextStats ==
    \/ \E sp \in SportSet : WorkerScrape(sp)
    \/ \E sp \in SportSet : WorkerAcquire(sp)
    \/ \E sp \in SportSet : WorkerLoad(sp)
    \/ \E sp \in SportSet : WorkerStore(sp)
    \/ \E sp \in SportSet : WorkerRelease(sp)
    \/ \E t \in Tasks : CardTaskResumes(t)

SpecStats == InitStats /\ [][NextStats]_vars

AllWorkersFinished ==
    /\ \A sp \in SportSet : stat_pc[sp] = "done"
    /\ \A t \in Tasks : task_pc[t] = "done"

\* C18: once all concurrent workers have finished, every counter of the
\* run's statistics equals the sum of the increments performed on it
C18_NoLostUpdates ==
    AllWorkersFinished =>
        /\ unified_stats.years_discovered = performed.years_discovered
        /\ unified_stats.errors_encountered = performed.errors_encountered
        /\ async_stats.cards_processed = performed.cards_processed
        /\ async_stats.errors = performed.errors

\* All workers have finished after two of them met at the lock and added to
\* the same counter, and two card tasks counted a card
C18_Witness ==
    /\ AllWorkersFinished
    /\ contended
    /\ \A sp \in SportSet : stat_result[sp].error
    /\ unified_stats.errors_encountered = Cardinality(SportSet)
    /\ async_stats.cards_processed = NumTasks


-----------------------------------------------------------------------------
(* SpecTimeout: the pages of a run are fetched one after the other from a *)
(* server that may leave any request unanswered.  A fetch goes through    *)
(* AsyncHTTPClient.fetch_html, through AsyncWebScraper.fetch_html_async   *)
(* (lightweight request, then the browser) or through the synchronous     *)
(* fetch_rendered_html.  Every call that waits for the server has a time  *)
(* limit: the client session's total timeout, the timeout given to        *)
(* page.goto, and the browser library's default for wait_for_load_state.  *)
(* Time is counted in units of 30 seconds.                                *)

outsideTimeout ==
    <<upsertVars, runnerVars, rateVars, retryVars, cacheVars, crawlVars,
      asyncVars, poolVars, runVars, statVars,
      filterVars,
      bulkVars,
      configVars,
      gradeVars,
      monitorVars>>

ClientTimeoutTotal == 1     \* aiohttp.ClientTimeout(total=30)
GotoTimeout == 2            \* page.goto(url, timeout=60000)
LoadStateTimeout == 1       \* wait_for_load_state: the default, 30000 ms
MaxPages == 3       \* pages fetched in a run
MaxWait == 3        \* the longest wait the clock of a fetch can show

FetchRoutes == {"fetch_html", "fetch_html_async", "fetch_rendered_html"}

InitTimeout ==
    /\ now = 0
    /\ db = EmptyDb
    /\ fetch_route \in FetchRoutes
    /\ wait_stage = "idle"
    /\ waited = 0
    /\ outcomes = << >>
    /\ _cache = << >>
    /\ _js_required_urls = {}
    /\ enable_cache = FALSE
    /\ use_playwright_fallback \in BOOLEAN
    /\ fetches = 0
    /\ rendered = {}
    /\ last_fetch = NoFetch
    /\ IdleUpsert /\ IdleRunners /\ IdleRate /\ IdleRetry /\ IdleCache
    /\ IdleCrawl /\ IdleAsync /\ IdlePool /\ IdleRuns /\ IdleStats
    /\ IdleFilter
    /\ IdleBulk
    /\ IdleConfig
    /\ IdleGrades
    /\ IdleMonitor

UnchangedByTimeout == UNCHANGED <<storeVars, fetchVars, outsideTimeout>>

\* The time limit of the call a fetch waits in
TimeLimit_unlimited(call) == MaxWait + 1

TimeLimit(call) ==
    CASE call = "request"    -> ClientTimeoutTotal
      [] call = "goto"       -> GotoTimeout
      [] call = "load_state" -> LoadStateTimeout
      [] OTHER               -> 0

TimedOut == wait_stage # "idle" /\ waited >= TimeLimit(wait_stage)

\* The next page's fetch starts: with the lightweight request, or with the
\* browser's page.goto
BeginFetch ==
    /\ wait_stage = "idle"
    /\ Len(outcomes) < MaxPages
    /\ wait_stage' = IF fetch_route = "fetch_rendered_html" THEN "goto" ELSE "request"
    /\ waited' = 0
    /\ UNCHANGED <<fetch_route, outcomes>>
    /\ UnchangedByTimeout

\* Time passes while the fetch waits
TickWait ==
    /\ wait_stage # "idle"
    /\ ~TimedOut
    /\ waited < MaxWait
    /\ waited' = waited + 1
    /\ UNCHANGED <<fetch_route, wait_stage, outcomes>>
    /\ UnchangedByTimeout

\* The server answers the call the fetch waits in: the lightweight response
\* is returned, or is judged to need the browser; page.goto is followed by
\* wait_for_load_state, and that by the page's content
ServerAnswers ==
    /\ wait_stage # "idle"
    /\ ~TimedOut
    /\ \E needs_javascript \in BOOLEAN :
         CASE wait_stage = "request" /\ fetch_route = "fetch_html_async"
                                     /\ needs_javascript ->
                 /\ wait_stage' = "goto"
                 /\ waited' = 0
                 /\ UNCHANGED outcomes
           [] wait_stage = "goto" ->
                 /\ wait_stage' = "load_state"
                 /\ waited' = 0
                 /\ UNCHANGED outcomes
           [] OTHER ->
                 /\ wait_stage' = "idle"
                 /\ waited' = 0
                 /\ outcomes' = Append(outcomes, "html")
    /\ UNCHANGED fetch_route
    /\ UnchangedByTimeout

\* The time limit of the call is reached and it raises its timeout error:
\* fetch_html_async turns to the browser after a failed lightweight request
\* when the fallback is enabled; everywhere else the fetch fails
TimeoutFires ==
    /\ TimedOut
    /\ IF /\ wait_stage = "request"
          /\ fetch_route = "fetch_html_async"
          /\ use_playwright_fallback
       THEN /\ wait_stage' = "goto"
            /\ UNCHANGED outcomes
       ELSE /\ wait_stage' = "idle"
            /\ outcomes' = Append(outcomes, "timeout")
    /\ waited' = 0
    /\ UNCHANGED fetch_route
    /\ UnchangedByTimeout

NextTimeout ==
    \/ BeginFetch
    \/ TickWait
    \/ ServerAnswers
    \/ TimeoutFires

SpecTimeout == InitTimeout /\ [][NextTimeout]_vars

\* Time passes and timers fire; the run goes on to its next page.  Nothing
\* makes the server answer.
SpecTimeoutFair ==
    /\ SpecTimeout
    /\ WF_vars(BeginFetch)
    /\ WF_vars(TickWait)
    /\ WF_vars(TimeoutFires)

\* C19: a fetch that waits for the server ends, with the page or, when no
\* response comes, with a timeout error; so the run gets through all of
\* its pages
C19_StuckFetchTimesOut ==
    /\ (wait_stage # "idle") ~> (wait_stage = "idle")
    /\ <>(Len(outcomes) = MaxPages)

\* A fetch whose request was never answered has ended with a timeout error
C19_Witness ==
    \E i \in DOMAIN outcomes : outcomes[i] = "timeout"


-----------------------------------------------------------------------------
(* The filters of a run.  FiveTierPipeline.run_pipeline takes year_filter, *)
(* set_filter and card_filter and logs them; PipelineConfig of the unified *)
(* pipeline holds them; AsyncScrapingPipeline.scrape_years applies them.   *)

\* The entry points of SpecRuns that are given the filters
TakesFilters == pipeline \in {"five_tier", "unified"}

\* C21: with an allow-list of years configured, no year outside the list is
\* expanded or persisted: every stored row that belongs to a year belongs to
\* a year of the list
C21_OnlyAllowedYears ==
    (TakesFilters /\ year_filter # {}) =>
        \A tb \in TableNames : \A r \in Rows(db, tb) :
            r.year = None \/ r.year \in year_filter


-----------------------------------------------------------------------------
(* SpecBulk: a bulk upsert of records that is split into batches.          *)
(* AsyncBulkOperations._process_batches_concurrently runs one task per     *)
(* batch in a TaskGroup; BulkDatabaseOperations.process_batches handles    *)
(* the batches one after the other.  A batch is written by one statement   *)
(* in one transaction (_bulk_upsert_postgres: a multi-row INSERT ... ON    *)
(* CONFLICT; _bulk_upsert_sqlite: INSERT OR REPLACE for the list of        *)
(* records), followed by commit.                                           *)

outsideBulk ==
    <<upsertVars, runnerVars, rateVars, retryVars, cacheVars, crawlVars,
      asyncVars, fetchVars, poolVars, runVars, statVars, timeoutVars,
      filterVars,
      configVars,
      gradeVars,
      monitorVars>>

NumRecords == 4             \* records handed to the bulk upsert
batch_size == 2             \* records per batch
max_concurrent_batches == 5

BulkRoutes == {"_process_batches_concurrently", "process_batches"}

\* records[i : i + batch_size] for i in range(0, len(records), batch_size)
NumBatches(records) == (Len(records) + batch_size - 1) \div batch_size

BatchOf(records, b) ==
    SubSeq(records, (b - 1) * batch_size + 1, Min({b * batch_size, Len(records)}))

InitBulk ==
    /\ now = 0
    /\ db = EmptyDb
    /\ bulk_route \in BulkRoutes
    /\ \E n \in 1..NumRecords :
         /\ bulk_records \in [1..n -> [key : 1..NumRecords, accepted : BOOLEAN]]
         /\ \A i \in 1..n : bulk_records[i].key = i
    /\ batch_state = [b \in 1..NumBatches(bulk_records) |-> "pending"]
    /\ bulk_table = {}
    /\ IdleUpsert /\ IdleRunners /\ IdleRate /\ IdleRetry /\ IdleCache
    /\ IdleCrawl /\ IdleAsync /\ IdleFetch /\ IdlePool /\ IdleRuns
    /\ IdleStats /\ IdleTimeout /\ IdleFilter
    /\ IdleConfig
    /\ IdleGrades
    /\ IdleMonitor

UnchangedByBulk == UNCHANGED <<storeVars, bulk_route, bulk_records, outsideBulk>>

Batches == DOMAIN batch_state

\* The task of batch b gets to run: inside the semaphore in a TaskGroup,
\* after the batches before it in process_batches
BatchStart(b) ==
    /\ batch_state[b] = "pending"
    /\ IF bulk_route = "process_batches"
       THEN \A c \in 1..(b - 1) : batch_state[c] = "committed"
       ELSE Cardinality({c \in Batches : batch_state[c] = "running"})
                < max_concurrent_batches
    /\ batch_state' = [batch_state EXCEPT ![b] = "running"]
    /\ UNCHANGED bulk_table
    /\ UnchangedByBulk

\* The statement of a batch: it writes every record of the batch, or, when
\* the table rejects one of them, fails as a whole
BatchWrites(records) ==
    IF \A i \in DOMAIN records : records[i].accepted
    THEN {records[i].key : i \in DOMAIN records}
    ELSE {}

BatchFails(records) == \E i \in DOMAIN records : ~records[i].accepted

\* session.execute and session.commit of batch b.  A failure is raised out
\* of the batch's function: the TaskGroup cancels the tasks that have not
\* finished, and the loop of process_batches is left
BatchExecute(b) ==
    /\ batch_state[b] = "running"
    /\ LET records == BatchOf(bulk_records, b)
       IN  /\ bulk_table' = bulk_table \cup BatchWrites(records)
           /\ batch_state' =
                IF BatchFails(records)
                THEN [c \in Batches |->
                        IF c = b THEN "failed"
                        ELSE IF batch_state[c] \in {"pending", "running"}
                        THEN "cancelled"
                        ELSE batch_state[c]]
                ELSE [batch_state EXCEPT ![b] = "committed"]
    /\ UnchangedByBulk

NextBulk ==
    \/ \E b \in Batches : BatchStart(b)
    \/ \E b \in Batches : BatchExecute(b)

SpecBulk == InitBulk /\ [][NextBulk]_vars

BulkOver == \A b \in Batches : batch_state[b] \in {"committed", "failed", "cancelled"}

\* C22: in a batched upsert a record that fails does not keep the other
\* records from being written: when the upsert is over the table holds
\* every record it accepts
C22_SiblingsWritten ==
    BulkOver =>
        \A i \in DOMAIN bulk_records :
            bulk_records[i].accepted => bulk_records[i].key \in bulk_table


-----------------------------------------------------------------------------
(* A record of a page that the database rejects (SpecCrawl) *)

\* The database rejects the first record of a page that has been handled,
\* a page which also holds a TOTALS row, in a run whose handlers do not
\* overlap
OneRecordRejected ==
    /\ deviation.kind = "flush_fails"
    /\ Len(deviation.path) <= 3
    /\ deviation.path \in visited
    /\ HasTotalsRow(deviation.path)
    /\ concurrency = 1

\* C23: a record the database rejects is fatal to that record only: at the
\* end of the run the remaining records of its page are persisted, here
\* the page's TOTALS rollup, which is stored after the page's child rows
C23_RestOfPagePersisted ==
    (OneRecordRejected /\ RunOver) => RollupsOf(db, deviation.path) # {}


-----------------------------------------------------------------------------
(* SpecConfig: a pipeline started with a configuration from its command    *)
(* line.  The entry points are main of pipeline.py, of new_pipeline.py and *)
(* of unified_pipeline.py, and UnifiedPipeline.run_pipeline.  None of them *)
(* examines the values of --concurrency and --delay.                       *)

outsideConfig ==
    <<upsertVars, runnerVars, rateVars, retryVars, cacheVars, crawlVars,
      asyncVars, fetchVars, poolVars, runVars, statVars, timeoutVars,
      filterVars, bulkVars,
      gradeVars,
      monitorVars>>

MaxConfigPages == 3         \* pages a scrape requests after discovery
PIPELINE_MAX_CONCURRENCY == 3

Entries ==
    {"pipeline.main", "new_pipeline.main", "unified_pipeline.main",
     "UnifiedPipeline.run_pipeline"}

ConcurrencyArgs == {-1, 0, 1, 3}
DelayArgs == {-1, 0, 1}

InvalidConfig(c) == c.concurrency < 1 \/ c.delay < 0

InitConfig ==
    /\ now = 0
    /\ db = EmptyDb
    /\ cfg_entry \in Entries
    /\ cfg \in [concurrency : ConcurrencyArgs, delay : DelayArgs]
    /\ cfg_pc = "start"
    /\ cfg_effective = cfg
    /\ cfg_requests = 0
    /\ cfg_exit = -1
    /\ IdleUpsert /\ IdleRunners /\ IdleRate /\ IdleRetry /\ IdleCache
    /\ IdleCrawl /\ IdleAsync /\ IdleFetch /\ IdlePool /\ IdleRuns
    /\ IdleStats /\ IdleTimeout /\ IdleFilter /\ IdleBulk
    /\ IdleGrades
    /\ IdleMonitor

UnchangedByConfig == UNCHANGED <<storeVars, cfg_entry, cfg, outsideConfig>>

\* discover_categories(): the first request of pipeline.py's main, made
\* before FiveTierPipeline is constructed, and of run_pipeline
DiscoverCategories ==
    /\ cfg_entry \in {"pipeline.main", "UnifiedPipeline.run_pipeline"}
    /\ cfg_pc = "start"
    /\ cfg_requests' = cfg_requests + 1
    /\ cfg_pc' = "discovered"
    /\ UNCHANGED <<cfg_effective, cfg_exit>>
    /\ UnchangedByConfig

\* FiveTierPipeline.__init__: self.concurrency = concurrency or the default
FiveTierConcurrency(c) ==
    IF c.concurrency = 0 THEN PIPELINE_MAX_CONCURRENCY ELSE c.concurrency

\* The pipeline object and the orchestrator are constructed with the
\* values as given
Construct ==
    /\ \/ cfg_entry \in {"pipeline.main", "UnifiedPipeline.run_pipeline"}
          /\ cfg_pc = "discovered"
       \/ cfg_entry \in {"new_pipeline.main", "unified_pipeline.main"}
          /\ cfg_pc = "start"
    /\ cfg_effective' =
          IF cfg_entry = "pipeline.main"
          THEN [cfg EXCEPT !.concurrency = FiveTierConcurrency(cfg)]
          ELSE cfg
    /\ cfg_pc' = IF cfg_entry = "unified_pipeline.main" THEN "constructed"
                 ELSE "scraping"
    /\ UNCHANGED <<cfg_requests, cfg_exit>>
    /\ UnchangedByConfig

\* main of unified_pipeline.py enters pipeline.get_session(), which reads
\* self.dry_run, an attribute UnifiedPipeline does not have: the
\* AttributeError ends main with status 1, whatever the configuration
GetSession ==
    /\ cfg_entry = "unified_pipeline.main"
    /\ cfg_pc = "constructed"
    /\ cfg_pc' = "exited"
    /\ cfg_exit' = 1
    /\ UNCHANGED <<cfg_effective, cfg_requests>>
    /\ UnchangedByConfig

\* The orchestrator requests a page: in a pool when concurrency > 1 and
\* one after the other otherwise, after a sleep when the delay is > 0
FetchPage ==
    /\ cfg_pc = "scraping"
    /\ cfg_requests < MaxConfigPages
    /\ cfg_requests' = cfg_requests + 1
    /\ UNCHANGED <<cfg_pc, cfg_effective, cfg_exit>>
    /\ UnchangedByConfig

\* The scrape is over and main returns 0
ExitConfig ==
    /\ cfg_pc = "scraping"
    /\ cfg_requests >= MaxConfigPages
    /\ cfg_pc' = "exited"
    /\ cfg_exit' = 0
    /\ UNCHANGED <<cfg_effective, cfg_requests>>
    /\ UnchangedByConfig

NextConfig ==
    \/ DiscoverCategories
    \/ Construct
    \/ GetSession
    \/ FetchPage
    \/ ExitConfig

SpecConfig == InitConfig /\ [][NextConfig]_vars

\* C24: a configuration with an invalid concurrency or a negative delay is
\* rejected before any network activity: no page is ever requested
C24_InvalidConfigRejected == InvalidConfig(cfg) => cfg_requests = 0


-----------------------------------------------------------------------------
(* The store the async pipeline leaves (SpecAsync).  AsyncScrapingPipeline *)
(* constructs its AsyncBulkOperations in initialize and never calls it:    *)
(* scrape_years, scrape_sets, scrape_cards and process_cards_batch return  *)
(* or count what they extract and write nothing.                           *)

\* C25: run over the same source data, without filters, the async pipeline
\* ends with the stored rows the worker-pool pipeline ends with
C25_SameStoredState ==
    (async_pc = "finished" /\ SameSource /\ year_filter = {}) =>
        \A tb \in TableNames :
            Rows(db, tb) = Rows(SequentialStore(deviation), tb)


-----------------------------------------------------------------------------
(* SpecGrades: the grade rows of one card page, from the page's table to   *)
(* the store: MultiLevelOrchestrator.scrape_card_grade_rows extracts the   *)
(* rows with extract_grade_rows_from_card_page and upserts each of them;   *)
(* the run's statistics are PipelineStats of pipeline.py.                  *)

outsideGrades ==
    <<upsertVars, runnerVars, rateVars, retryVars, cacheVars, crawlVars,
      asyncVars, fetchVars, poolVars, runVars, statVars, timeoutVars,
      filterVars, bulkVars, configVars,
      monitorVars>>

MaxGradeRows == 2           \* rows of the card page's table

Cert2 == <<"X", "3", "1">>
Blank == <<" ">>

\* A table row: its cert_number cell is its title, its tag_grade cell the
\* rest; either may be missing or blank
GradeTableRows ==
    {Row(CardNo, cert, FALSE, grade) :
        cert \in {Cert, Cert2, << >>, Blank}, grade \in {Count, << >>}}

CardPage == <<"Baseball", "1989", "Topps", "Ryan", "7">>

InitGrades ==
    /\ now = 0
    /\ db = EmptyDb
    /\ \E n \in 0..MaxGradeRows : grade_page \in [1..n -> GradeTableRows]
    /\ grade_pc = "start"
    /\ grade_found = << >>
    /\ grade_table = {}
    /\ rows_skipped = 0
    /\ IdleUpsert /\ IdleRunners /\ IdleRate /\ IdleRetry /\ IdleCache
    /\ IdleCrawl /\ IdleAsync /\ IdleFetch /\ IdlePool /\ IdleRuns
    /\ IdleStats /\ IdleTimeout /\ IdleFilter /\ IdleBulk /\ IdleConfig
    /\ IdleMonitor

UnchangedByGrades == UNCHANGED <<storeVars, grade_page, outsideGrades>>

\* grade_rows = extract_grade_rows_from_url(primary_card_url, set_title):
\* the rows without cert_number or tag_grade are left out with a message
\* printed, and no statistic is touched
ExtractGradeRows ==
    /\ grade_pc = "start"
    /\ grade_found' =
          extract_grade_rows_from_card_page(grade_page, CardPage[1], CardPage[2],
                                            CardPage[3], CardPage[4], CardPage)
    /\ grade_pc' = "storing"
    /\ UNCHANGED <<grade_table, rows_skipped>>
    /\ UnchangedByGrades

\* upsert_card_grade_row for the next extracted row, by its cert_number
StoreGradeRow ==
    /\ grade_pc = "storing"
    /\ grade_found # << >>
    /\ LET row_data == Head(grade_found)
       IN  grade_table' =
              {r \in grade_table : r.cert_number # row_data.cert_number}
              \cup {row_data}
    /\ grade_found' = Tail(grade_found)
    /\ UNCHANGED <<grade_pc, rows_skipped>>
    /\ UnchangedByGrades

\* return len(grade_rows)
GradeRowsStored ==
    /\ grade_pc = "storing"
    /\ grade_found = << >>
    /\ grade_pc' = "done"
    /\ UNCHANGED <<grade_found, grade_table, rows_skipped>>
    /\ UnchangedByGrades

NextGrades ==
    \/ ExtractGradeRows
    \/ StoreGradeRow
    \/ GradeRowsStored

SpecGrades == InitGrades /\ [][NextGrades]_vars

\* A row of the table that lacks its cert_number or its tag_grade
Lacking(row) ==
    normalize_text(row.title) = << >> \/ normalize_text(row.rest) = << >>

\* The rows of the page that lack a required field
Rejected == {i \in DOMAIN grade_page : Lacking(grade_page[i])}

\* No stored grade row comes from a row lacking a required field
NoLackingRowStored ==
    \A r \in grade_table :
        \E i \in DOMAIN grade_page :
            /\ ~Lacking(grade_page[i])
            /\ r.cert_number = Str(normalize_text(grade_page[i].title))
            /\ r.tag_grade = Str(normalize_text(grade_page[i].rest))

\* C26: a grade row lacking cert_number or tag_grade is never persisted,
\* and when the page has been handled the run's skipped count has been
\* incremented once for each rejected row
C26_RejectedRowsCounted ==
    /\ NoLackingRowStored
    /\ grade_pc = "done" => rows_skipped = Cardinality(Rejected)


-----------------------------------------------------------------------------
(* SpecMonitor: MultiRunnerOrchestrator starts its runner processes and    *)
(* waits for them.  start_runner starts the process and, at once, a thread *)
(* running _monitor_runner; start_all_runners puts the runner's status in  *)
(* self.runners only after start_runner has returned.  monitor_runners     *)
(* loops until every status in self.runners is completed or failed.        *)

outsideMonitor ==
    <<upsertVars, runnerVars, rateVars, retryVars, cacheVars, crawlVars,
      asyncVars, fetchVars, poolVars, runVars, statVars, timeoutVars,
      filterVars, bulkVars, configVars, gradeVars>>

RunnerIds == 1..NumRunners

InitMonitor ==
    /\ now = 0
    /\ db = EmptyDb
    /\ orch_pc = "start_runner"
    /\ orch_next = 1
    /\ orch_runners = {}
    /\ orch_status = [r \in RunnerIds |-> "stopped"]
    /\ process = [r \in RunnerIds |-> "none"]
    /\ monitor_thread = [r \in RunnerIds |-> "none"]
    /\ IdleUpsert /\ IdleRunners /\ IdleRate /\ IdleRetry /\ IdleCache
    /\ IdleCrawl /\ IdleAsync /\ IdleFetch /\ IdlePool /\ IdleRuns
    /\ IdleStats /\ IdleTimeout /\ IdleFilter /\ IdleBulk /\ IdleConfig
    /\ IdleGrades

UnchangedByMonitor == UNCHANGED <<storeVars, outsideMonitor>>

\* start_runner(config): Popen starts the process, the status becomes
\* "running" and the monitoring thread is started; when Popen raises the
\* status is "failed" and there is no thread
StartRunner(started) ==
    /\ orch_pc = "start_runner"
    /\ orch_next \in RunnerIds
    /\ LET r == orch_next
       IN  IF started
           THEN /\ process' = [process EXCEPT ![r] = "alive"]
                /\ orch_status' = [orch_status EXCEPT ![r] = "running"]
                /\ monitor_thread' = [monitor_thread EXCEPT ![r] = "waiting"]
           ELSE /\ orch_status' = [orch_status EXCEPT ![r] = "failed"]
                /\ UNCHANGED <<process, monitor_thread>>
    /\ orch_pc' = "register"
    /\ UNCHANGED <<orch_next, orch_runners>>
    /\ UnchangedByMonitor

\* start_all_runners: self.runners[config.runner_id] = runner_status, then
\* the next runner, and monitor_runners after the last
RegisterRunner ==
    /\ orch_pc = "register"
    /\ orch_runners' = orch_runners \cup {orch_next}
    /\ orch_next' = orch_next + 1
    /\ orch_pc' = IF orch_next = NumRunners THEN "monitoring" ELSE "start_runner"
    /\ UNCHANGED <<orch_status, process, monitor_thread>>
    /\ UnchangedByMonitor

\* A runner process exits with code 0 or with another code
ProcessExits(r, code) ==
    /\ process[r] = "alive"
    /\ process' = [process EXCEPT ![r] = code]
    /\ UNCHANGED <<orch_pc, orch_next, orch_runners, orch_status, monitor_thread>>
    /\ UnchangedByMonitor

\* _monitor_runner: process.communicate() has returned; under the lock the
\* status is set if the runner is in self.runners, and a warning is logged
\* otherwise
MonitorRunner(r) ==
    /\ monitor_thread[r] = "waiting"
    /\ process[r] \in {"exit0", "exit1"}
    /\ orch_status' =
          IF r \in orch_runners
          THEN [orch_status EXCEPT
                  ![r] = IF process[r] = "exit0" THEN "completed" ELSE "failed"]
          ELSE orch_status
    /\ monitor_thread' = [monitor_thread EXCEPT ![r] = "done"]
    /\ UNCHANGED <<orch_pc, orch_next, orch_runners, process>>
    /\ UnchangedByMonitor

\* monitor_runners: the loop is left when every runner in self.runners is
\* completed or failed; otherwise it sleeps and checks again
MonitorRunners ==
    /\ orch_pc = "monitoring"
    /\ \A r \in orch_runners : orch_status[r] \in {"completed", "failed"}
    /\ orch_pc' = "terminated"
    /\ UNCHANGED <<orch_next, orch_runners, orch_status, process, monitor_thread>>
    /\ UnchangedByMonitor

NextMonitor ==
    \/ \E started \in BOOLEAN : StartRunner(started)
    \/ RegisterRunner
    \/ \E r \in RunnerIds : \E code \in {"exit0", "exit1"} : ProcessExits(r, code)
    \/ \E r \in RunnerIds : MonitorRunner(r)
    \/ MonitorRunners

SpecMonitor == InitMonitor /\ [][NextMonitor]_vars

\* The main thread and the monitoring threads keep running, and every
\* runner process exits
SpecMonitorFair ==
    /\ SpecMonitor
    /\ WF_vars(\E started \in BOOLEAN : StartRunner(started))
    /\ WF_vars(RegisterRunner)
    /\ \A r \in RunnerIds :
          WF_vars(\E code \in {"exit0", "exit1"} : ProcessExits(r, code))
    /\ \A r \in RunnerIds : WF_vars(MonitorRunner(r))
    /\ WF_vars(MonitorRunners)

\* C30: when every runner process exits, every runner's status becomes
\* completed or failed and the monitoring loop terminates, however soon
\* after its start a process exits
C30_MonitoringTerminates ==
    <>(/\ orch_pc = "terminated"
       /\ \A r \in RunnerIds : orch_status[r] \in {"completed", "failed"})

=============================================================================
